---- MODULE Spec2Model ----
(***************************************************************************)
(* Tool-execution subsystem of the voice menu board: the session event bus *)
(* (lib/sdk/events_proxy), the App's session handshake, the ToolExecutor   *)
(* and the capability registry of ToolContext.                             *)
(*                                                                         *)
(* JavaScript is single-threaded: one action of this model is one          *)
(* synchronous run of code, from the start of a task (or the resumption    *)
(* after an await) to its next await or its end.  A synchronous            *)
(* dispatchEvent runs the listeners inside the dispatching action.         *)
(***************************************************************************)
EXTENDS Naturals, Integers, Sequences, FiniteSets, TLC

(***************************************************************************)
(* Bounds of the model.                                                    *)
(***************************************************************************)
MaxStarts == 2        \* startStreaming calls explored
MaxCalls == 2         \* tool action invocations explored
MaxFlows == 2         \* runs of the initialization handlers explored
MaxActiveFlows == 1   \* handler runs in progress at the same time
MaxSlots == 2         \* the same, where a handler may start during another's run
MaxDeliveries == 2    \* deliveries of the authentication callback per sign-in
MaxBusEvents == 3     \* length of the bus log up to which further events are dispatched
MaxDisconnects == 1   \* disconnect events with an active session explored
MaxUpdates == 2       \* registry updaters queued between two renders
MaxTools == 3         \* tools of a stored catalog
MaxMessages == 2      \* messages of the chat history
MaxEntries == 2       \* tools, and global parameters, of the settings page

(***************************************************************************)
(* Shared environment: the stored credentials and the persisted catalog.   *)
(***************************************************************************)
VARIABLES
  creds,      \* sessionStorage credentials: "none", "noexp" (no expiration
              \* field), "valid" (expiration in the future), "expired"
  catalog     \* agentConfig.tools: sequence of tool configurations

envVars == <<creds, catalog>>

(***************************************************************************)
(* Session bus (events_proxy) and the App's streaming state.               *)
(***************************************************************************)
VARIABLES
  bedrockClient,          \* FALSE = null, TRUE = a client object
  session,                \* module variable `session`  (0 = null/undefined)
  sessionId,              \* module variable `sessionId` (0 = ""/undefined)
  starts,                 \* startStreaming calls made so far (session ids)
  listeners,              \* registered (handleSessionCreated, handleSessionInitiated) pairs
  pendingLoads,           \* handleSessionCreated runs awaiting loadToolsFromConfig: their `data`
  sessionInitializedRef,
  isStreamingRef,
  resumed,                \* startStreaming calls past `await initializeSession()`
  inflight,               \* awaited remote setup calls: op -> sequence of session ids
  teardowns,              \* stopAudio chains in flight: the pending call of each
  cleanups,               \* disconnect cleanups in flight: the pending call of each
  active,                 \* sessions the remote client holds as active
  disconnected,           \* session ids whose disconnect handler has returned
  busLog,                 \* bus events dispatched since the last createSession
  remoteLog,              \* calls on the remote wrapper since the last createSession
  lastTools,              \* tools of the last initiateSession event
  lastError,              \* detail.message of the last error event ("" = none)
  failed,                 \* steps that threw or rejected in the last step of the bus
  freshStart              \* the last createSession was dispatched with no session set

sessVars == <<bedrockClient, session, sessionId, starts, listeners, pendingLoads,
              sessionInitializedRef, isStreamingRef, resumed, inflight, teardowns,
              cleanups, active, disconnected, busLog, remoteLog, lastTools, lastError, failed, freshStart>>

(***************************************************************************)
(* ToolExecutor singleton and the invocations of ProcessedTool actions.    *)
(***************************************************************************)
VARIABLES
  executionContext,       \* ToolExecutor.executionContext (isSet = FALSE: null)
  toolCalls               \* invocations of tool actions, in call order

toolVars == <<executionContext, toolCalls>>

(***************************************************************************)
(* Capability registry, authentication state and the runs of the App's     *)
(* initialization handlers.                                                *)
(***************************************************************************)
VARIABLES
  componentRegistry,         \* ToolContext: names of the registered components
  isAuthenticatedRef,
  toolsSkippedDuringConfig,
  credentialsReady,          \* AuthenticatedWrapper state
  hasNotifiedAuth,           \* AuthenticatedWrapper state
  flows,                     \* handleConfigSet / handleAuthenticationSuccess runs in progress
  finished,                  \* the run that finished since the last handler call
  flowsStarted               \* handler runs started so far

flowVars == <<componentRegistry, isAuthenticatedRef, toolsSkippedDuringConfig,
              credentialsReady, hasNotifiedAuth, flows, finished, flowsStarted>>

(***************************************************************************)
(* The registry Map of ToolProvider.  It is React state: registerComponent *)
(* and unregisterComponent queue an updater, and the next render applies   *)
(* the queued updaters in order and makes new callbacks that close over    *)
(* the new Map.  componentRegistry above holds the keys of the Map.        *)
(***************************************************************************)
VARIABLES
  registrations,   \* the Map of the last render, as its entries in insertion order
  updates,         \* updaters queued since the last render
  applied,         \* updaters the last render applied
  held             \* the Map of the render before the last: what the callbacks
                   \* obtained in that render read

regVars == <<registrations, updates, applied, held>>

(***************************************************************************)
(* The tools the ToolExecutor made of the catalog.                         *)
(***************************************************************************)
VARIABLES
  processedTools,  \* result of the last loadToolsFromConfig
  initTools        \* result of the last getInitializationTools

cfgVars == <<processedTools, initTools>>

(***************************************************************************)
(* AppContent and the methods it registers for the tools.                  *)
(***************************************************************************)
VARIABLES
  appState,        \* React state of AppContent: status, isStreaming, chat,
                   \* isAuthenticated
  appMethods,      \* the methods objects AppContent registered: whether they are
                   \* in the registry and the render state their closures hold
  toolComponents,  \* `components` of the execution context handed to the tools
  observed         \* the last call a tool made through its context

capVars == <<appState, appMethods, toolComponents, observed>>

(***************************************************************************)
(* The settings page and the settings store.                               *)
(***************************************************************************)
VARIABLES
  draft,           \* settings.agent of the settings page: tools, globalParameters
  stored,          \* agent configuration in localStorage
  lastOp           \* the last handler of the settings page that ran, with the
                   \* outcome of a save or an import

setVars == <<draft, stored, lastOp>>

(***************************************************************************)
(* History of the authentication callback since the last handleSignOut.    *)
(***************************************************************************)
VARIABLES
  deliveries,      \* calls of handleAuthenticationSuccess(true)
  authRuns         \* of these, the calls that went on to the initialization

authVars == <<deliveries, authRuns>>

uiVars == <<capVars, setVars, authVars>>

vars == <<envVars, sessVars, toolVars, flowVars, regVars, cfgVars, uiVars>>

Statuses == {"Disconnected", "Ready", "Streaming"}

AppState(s, streaming, n, auth) ==
  [status |-> s, isStreaming |-> streaming, chat |-> n, isAuthenticated |-> auth]

\* The initial values of the useState calls.
InitialAppState == AppState("Disconnected", FALSE, 0, FALSE)

AppStates ==
  {AppState(s, b, n, a) : s \in Statuses, b \in BOOLEAN, n \in 0..MaxMessages, a \in BOOLEAN}

Methods(present, closure) == [present |-> present, closure |-> closure]

NoMethods == Methods(FALSE, InitialAppState)

Observed(m, had, result, now) == [method |-> m, had |-> had, result |-> result, now |-> now]

\* DEFAULT_TOOLS and DEFAULT_GLOBAL_PARAMETERS are empty.
AgentConfig(tools, params) == [tools |-> tools, globalParameters |-> params]

SetInit ==
  /\ draft = AgentConfig(<<>>, <<>>)
  /\ stored = AgentConfig(<<>>, <<>>)
  /\ lastOp = "none"

AuthInit ==
  /\ deliveries = 0
  /\ authRuns = 0

CapInit ==
  /\ appState = InitialAppState
  /\ appMethods = NoMethods
  /\ toolComponents = NoMethods
  /\ observed = Observed("none", FALSE, "null", "null")


(***************************************************************************)
(* Tool catalog.                                                           *)
(***************************************************************************)
ToolNames == {"T1", "T2"}

\* A tool of agentConfig.tools.  order 0 stands for a missing order too
\* (`order || 0`); inputSchema is "valid" if inputSchema.json parses, else
\* "malformed".
ToolConfig(n, o, init, schema) ==
  [tool_name |-> n, order |-> o, run_after_app_init |-> init, inputSchema |-> schema]

Tool(n, o, init) == ToolConfig(n, o, init, "valid")

Catalogs ==
  { <<>>,
    <<Tool("T1", 1, TRUE)>>,
    <<Tool("T1", 1, TRUE), Tool("T2", 2, FALSE)>>,
    <<Tool("T2", 2, TRUE), Tool("T1", 1, TRUE)>> }

\* tools.find(t => t.tool_name === name): the first tool of that name.
NoConfig == ToolConfig("", 0, FALSE, "valid")

FindConfig(cat, name) ==
  IF \E i \in DOMAIN cat : cat[i].tool_name = name
  THEN cat[CHOOSE i \in DOMAIN cat :
             /\ cat[i].tool_name = name
             /\ \A j \in DOMAIN cat : cat[j].tool_name = name => i <= j]
  ELSE NoConfig

\* ToolExecutor.processTool: a schema that does not parse is replaced by
\* {type: "object", properties: {}, required: []}; the action is made of
\* the script.
processTool(toolConfig) ==
  [toolname |-> toolConfig.tool_name,
   schema |-> IF toolConfig.inputSchema = "valid" THEN "parsed" ELSE "default"]

\* Array.prototype.sort is stable: t goes after every element whose key is
\* not greater than its own.  The key of a processed tool is the order of
\* the first tool of the catalog that has its name.
RECURSIVE InsertByOrder(_, _, _)
InsertByOrder(cat, r, t) ==
  IF r = <<>> THEN <<t>>
  ELSE IF FindConfig(cat, t.toolname).order < FindConfig(cat, r[Len(r)].toolname).order
       THEN InsertByOrder(cat, SubSeq(r, 1, Len(r) - 1), t) \o <<r[Len(r)]>>
       ELSE r \o <<t>>

RECURSIVE SortByOrder(_, _)
SortByOrder(cat, s) ==
  IF s = <<>> THEN <<>>
  ELSE InsertByOrder(cat, SortByOrder(cat, SubSeq(s, 1, Len(s) - 1)), s[Len(s)])

\* Mutant: a tool whose schema does not parse is left out.
LoadSkipsBadSchema(cat) ==
  LET good == SelectSeq(cat, LAMBDA c : c.inputSchema = "valid")
  IN SortByOrder(cat, [i \in DOMAIN good |-> processTool(good[i])])

\* ToolExecutor.loadToolsFromConfig: every tool processed, then sorted by order.
loadToolsFromConfig(cat) == SortByOrder(cat, [i \in DOMAIN cat |-> processTool(cat[i])])

ToolNamesOf(ts) == [i \in 1..Len(ts) |-> ts[i].toolname]

(***************************************************************************)
(* SettingsManager.getCredentials: expired credentials are removed from    *)
(* the store and null is returned.                                         *)
(***************************************************************************)
CredStates == {"none", "noexp", "valid", "expired"}

GetCredentials(c) == IF c \in {"none", "expired"} THEN "null" ELSE c

CredsAfterGet(c) == IF c = "expired" THEN "none" ELSE c

(***************************************************************************)
(* The bus state as a record, so that a synchronous chain of dispatches    *)
(* composes as functions on it.  A step starts with no failure recorded.  *)
(***************************************************************************)
Cur ==
  [creds |-> creds, bedrockClient |-> bedrockClient, session |-> session,
   sessionId |-> sessionId, listeners |-> listeners, pendingLoads |-> pendingLoads,
   sessionInitializedRef |-> sessionInitializedRef, resumed |-> resumed,
   inflight |-> inflight, teardowns |-> teardowns, cleanups |-> cleanups,
   active |-> active, disconnected |-> disconnected, busLog |-> busLog,
   remoteLog |-> remoteLog, lastTools |-> lastTools, lastError |-> lastError,
   failed |-> {}]

Commit(st) ==
  /\ creds' = st.creds
  /\ bedrockClient' = st.bedrockClient
  /\ session' = st.session
  /\ sessionId' = st.sessionId
  /\ listeners' = st.listeners
  /\ pendingLoads' = st.pendingLoads
  /\ sessionInitializedRef' = st.sessionInitializedRef
  /\ resumed' = st.resumed
  /\ inflight' = st.inflight
  /\ teardowns' = st.teardowns
  /\ cleanups' = st.cleanups
  /\ active' = st.active
  /\ disconnected' = st.disconnected
  /\ busLog' = st.busLog
  /\ remoteLog' = st.remoteLog
  /\ lastTools' = st.lastTools
  /\ lastError' = st.lastError
  /\ failed' = st.failed

SetupOps == {"setupPromptStart", "setupSystemPrompt", "setupStartAudio"}

\* One entry of remoteLog: a call on the remote wrapper made by the handshake.
Call(op, tool, sid) == [op |-> op, tool |-> tool, sid |-> sid]

Dispatch(st, ev) == [st EXCEPT !.busLog = Append(@, ev)]

LogRemote(st, e) == [st EXCEPT !.remoteLog = Append(@, e)]

\* target.dispatchEvent(new CustomEvent("error", {detail: {message, details}}))
EmitError(st, message) == [st EXCEPT !.lastError = message]

\* A remote call of the step threw, or its promise rejected.
Fail(st, step) == [st EXCEPT !.failed = @ \cup {step}]

\* The catch block of a handler: the step failed and the error event is
\* dispatched.
Caught(st, step, message) == EmitError(Fail(st, step), message)

(***************************************************************************)
(* events_proxy handlers of promptStart, systemPrompt and audioStart: with *)
(* no session they return; otherwise they call the remote setup method and *)
(* await it.                                                               *)
(***************************************************************************)
\* Mutant: the handler does not look for a session.
OnSetupEventUnguarded(st, op) ==
  [LogRemote(st, Call(op, "-", st.session))
     EXCEPT !.inflight[op] = Append(@, st.session)]

OnSetupEvent(st, op) ==
  IF st.session = 0 THEN st
  ELSE [LogRemote(st, Call(op, "-", st.session))
          EXCEPT !.inflight[op] = Append(@, st.session)]

SetupError(op) ==
  IF op = "setupPromptStart" THEN "Error processing prompt start"
  ELSE IF op = "setupSystemPrompt" THEN "Error processing system prompt"
  ELSE "Error processing audio start"

OnPromptStart(st) == OnSetupEvent(st, "setupPromptStart")

OnSystemPrompt(st) == OnSetupEvent(st, "setupSystemPrompt")

OnAudioStart(st) == OnSetupEvent(st, "setupStartAudio")

(***************************************************************************)
(* events_proxy handler of audioInput: with no session it returns;         *)
(* otherwise it decodes the data and awaits streamAudio; a throw of either *)
(* becomes an error event.                                                 *)
(***************************************************************************)
OnAudioInput(st, ok) ==
  IF st.session = 0 THEN st
  ELSE LET s1 == LogRemote(st, Call("streamAudio", "-", st.session))
       IN IF ok THEN s1 ELSE Caught(s1, "audioInput", "Error processing audio")

(***************************************************************************)
(* App.initializeSession, handleSessionInitiated: dispatches promptStart,  *)
(* systemPrompt and audioStart back to back, marks the session             *)
(* initialized, removes its two listeners and resolves its promise.        *)
(***************************************************************************)
\* Mutant: audioStart is dispatched first.
AudioStartFirst(st) ==
  LET s1 == OnAudioStart(Dispatch(st, "audioStart"))
      s2 == OnPromptStart(Dispatch(s1, "promptStart"))
      s3 == OnSystemPrompt(Dispatch(s2, "systemPrompt"))
  IN [s3 EXCEPT !.sessionInitializedRef = TRUE,
                !.listeners = @ - 1,
                !.resumed = @ + 1]

handleSessionInitiated(st) ==
  LET s1 == OnPromptStart(Dispatch(st, "promptStart"))
      s2 == OnSystemPrompt(Dispatch(s1, "systemPrompt"))
      s3 == OnAudioStart(Dispatch(s2, "audioStart"))
  IN [s3 EXCEPT !.sessionInitializedRef = TRUE,
                !.listeners = @ - 1,
                !.resumed = @ + 1]

\* dispatchEvent("sessionInitiated"): every handleSessionInitiated registered
\* at the time of the dispatch runs, in registration order.
RECURSIVE RunInitiatedListeners(_, _)
RunInitiatedListeners(st, n) ==
  IF n = 0 THEN st ELSE RunInitiatedListeners(handleSessionInitiated(st), n - 1)

DispatchSessionInitiated(st) ==
  RunInitiatedListeners(Dispatch(st, "sessionInitiated"), st.listeners)

(***************************************************************************)
(* events_proxy handler of initiateSession: setTool for every tool of the  *)
(* event (a throwing setTool is logged and skipped), then the remote       *)
(* initiateSession and the sessionInitiated event.                         *)
(***************************************************************************)
\* Mutant: every tool is registered twice.
RECURSIVE RegisterToolsTwice(_, _, _, _)
RegisterToolsTwice(st, sid, tools, bad) ==
  IF tools = <<>> THEN st
  ELSE RegisterToolsTwice(
         LogRemote(LogRemote(st, Call("setTool", Head(tools), sid)),
                   Call("setTool", Head(tools), sid)),
         sid, Tail(tools), bad)

\* setTool throws for the tools of `bad`: the inner catch logs it and the
\* loop goes on.
RECURSIVE RegisterTools(_, _, _, _)
RegisterTools(st, sid, tools, bad) ==
  IF tools = <<>> THEN st
  ELSE LET s1 == LogRemote(st, Call("setTool", Head(tools), sid))
       IN RegisterTools(IF Head(tools) \in bad THEN Fail(s1, "setTool") ELSE s1,
                        sid, Tail(tools), bad)

\* Mutant: the session is initiated before the tools are registered.
InitiateBeforeTools(st, sid, tools, bad, initOk) ==
  IF ~st.bedrockClient
  THEN Caught(st, "initiateSession", "Error initiating session")
  ELSE LET s1 == LogRemote(st, Call("initiateSession", "-", sid))
           s2 == RegisterTools(s1, sid, tools, bad)
       IN IF initOk THEN DispatchSessionInitiated(s2)
          ELSE Caught(s2, "initiateSession", "Error initiating session")

OnInitiateSession(st, sid, tools, bad, initOk) ==
  IF ~st.bedrockClient
  THEN Caught(st, "initiateSession", "Error initiating session")
  ELSE LET s1 == RegisterTools(st, sid, tools, bad)
           s2 == LogRemote(s1, Call("initiateSession", "-", sid))
       IN IF initOk THEN DispatchSessionInitiated(s2)
          ELSE Caught(s2, "initiateSession", "Error initiating session")

\* handleSessionCreated after `await loadToolsFromConfig()`.
DispatchInitiateSession(st, sid, tools, bad, initOk) ==
  OnInitiateSession([Dispatch(st, "initiateSession") EXCEPT !.lastTools = tools],
                    sid, tools, bad, initOk)

(***************************************************************************)
(* events_proxy handler of createSession: a client is made from the stored *)
(* credentials, then the session; sessionCreated starts every registered   *)
(* handleSessionCreated, each of which awaits loadToolsFromConfig.         *)
(***************************************************************************)
DispatchSessionCreated(st, sid) ==
  [Dispatch(st, "sessionCreated")
     EXCEPT !.pendingLoads = @ \o [i \in 1..st.listeners |-> sid]]

\* Mutant: the client is made from whatever getCredentials returned.
CreateWithAnyCredentials(st, sid, createOk) ==
  LET s1 == [st EXCEPT !.creds = CredsAfterGet(@)] IN
  IF ~createOk
  THEN Caught([s1 EXCEPT !.bedrockClient = TRUE], "createSession",
              "Error creating session")
  ELSE DispatchSessionCreated(
         [s1 EXCEPT !.bedrockClient = TRUE, !.session = sid, !.sessionId = sid,
                    !.active = @ \cup {sid}], sid)

OnCreateSession(st, sid, createOk) ==
  LET s1 == [st EXCEPT !.creds = CredsAfterGet(@)] IN
  IF GetCredentials(st.creds) = "null"
  THEN Caught(s1, "createSession", "Error creating session")
  ELSE IF ~createOk
       THEN Caught([s1 EXCEPT !.bedrockClient = TRUE], "createSession",
                   "Error creating session")
  ELSE DispatchSessionCreated(
         [s1 EXCEPT !.bedrockClient = TRUE, !.session = sid, !.sessionId = sid,
                    !.active = @ \cup {sid}], sid)

\* App.initializeSession: two listeners added, then createSession dispatched.
initializeSession(st, sid, createOk) ==
  OnCreateSession(
    [st EXCEPT !.listeners = @ + 1, !.busLog = <<"createSession">>,
               !.remoteLog = <<>>, !.lastTools = <<>>, !.lastError = ""],
    sid, createOk)

(***************************************************************************)
(* events_proxy handler of stopAudio: with no session it returns;         *)
(* otherwise it starts the chain endAudioContent -> endPrompt -> close,    *)
(* whose last step clears the session variables.  Each step reads the      *)
(* module variable `session` when it runs.                                 *)
(***************************************************************************)
\* A pending call of a closing sequence: the method, the session object it
\* was called on, and the session the stopAudio event was handled for.
Pending(ph, target, owner) == [phase |-> ph, target |-> target, owner |-> owner]

OnStopAudio(st) ==
  IF st.session = 0 THEN st
  ELSE [st EXCEPT !.teardowns = Append(@, Pending("endAudioContent", st.session, st.session))]

\* The remote client, as the specification describes it: a session is
\* active from its creation until it is closed or force-closed.
isSessionActive(st, sid) == sid \in st.active

Closed(st, target) == [st EXCEPT !.active = @ \ {target}]

forceCloseSession(st, sid) == [st EXCEPT !.active = @ \ {sid}]

RemoveAt(s, i) == SubSeq(s, 1, i - 1) \o SubSeq(s, i + 1, Len(s))

NextPhase(ph) == IF ph = "endAudioContent" THEN "endPrompt" ELSE "close"

\* Mutant: a failing step of the closing sequence is only logged.
TeardownStepSilent(st, i, ok) ==
  LET ph   == st.teardowns[i].phase
      rest == [st EXCEPT !.teardowns = RemoveAt(@, i)]
  IN IF ~ok THEN Fail(rest, "stopAudio")
     ELSE IF ph = "close"
          THEN [Closed(rest, st.teardowns[i].target)
                  EXCEPT !.session = 0, !.sessionId = 0]
     ELSE IF st.session = 0
          THEN Fail(rest, "stopAudio")
     ELSE [st EXCEPT !.teardowns[i] = Pending(NextPhase(ph), st.session, st.teardowns[i].owner)]

\* The awaited call of chain i settles.
TeardownStep(st, i, ok) ==
  LET ph   == st.teardowns[i].phase
      rest == [st EXCEPT !.teardowns = RemoveAt(@, i)]
  IN IF ~ok THEN Caught(rest, "stopAudio", "Error processing streaming end events")
     ELSE IF ph = "close"
          THEN [Closed(rest, st.teardowns[i].target)
                  EXCEPT !.session = 0, !.sessionId = 0]
     ELSE IF st.session = 0      \* session.endPrompt() on null throws
          THEN Caught(rest, "stopAudio", "Error processing streaming end events")
     ELSE [st EXCEPT !.teardowns[i] = Pending(NextPhase(ph), st.session, st.teardowns[i].owner)]

(***************************************************************************)
(* events_proxy handler of disconnect: with a client and an active session *)
(* it awaits the race of the closing sequence endAudioContent -> endPrompt *)
(* -> close against a 3 s timer.  When the sequence wins, the session      *)
(* variables are cleared; when the timer wins or a step throws, the catch  *)
(* block calls forceCloseSession(sessionId).  Every step and the catch     *)
(* block read the module variables `session` and `sessionId` when they     *)
(* run.  The App's own listener resets sessionInitializedRef.              *)
(***************************************************************************)
\* One run of the handler: the session id it was started for, its pending
\* call, and whether the handler still awaits the race.
Cleanup(sid, ph, target, racing) ==
  [sid |-> sid, phase |-> ph, target |-> target, racing |-> racing]

OnDisconnect(st) ==
  LET s1 == [Dispatch(st, "disconnect") EXCEPT !.sessionInitializedRef = FALSE] IN
  IF st.bedrockClient /\ isSessionActive(st, st.sessionId)
  THEN [s1 EXCEPT !.cleanups =
          Append(@, Cleanup(st.sessionId, "endAudioContent", st.session, TRUE))]
  ELSE s1

\* The catch block of the handler, then its return.
CleanupCatch(st, sid) ==
  [forceCloseSession(st, st.sessionId) EXCEPT !.disconnected = Append(@, sid)]

\* The sequence of run i has ended: the race settles if it is still open.
CleanupEnds(st, i, ok) ==
  LET c    == st.cleanups[i]
      rest == [st EXCEPT !.cleanups = RemoveAt(@, i)]
  IN IF ~c.racing THEN rest
     ELSE IF ok THEN [rest EXCEPT !.session = 0, !.sessionId = 0,
                                  !.disconnected = Append(@, c.sid)]
     ELSE CleanupCatch(rest, c.sid)

\* The awaited call of run i settles.
CleanupStep(st, i, ok) ==
  LET c == st.cleanups[i] IN
  IF ~ok THEN CleanupEnds(st, i, FALSE)
  ELSE IF c.phase = "close" THEN CleanupEnds(Closed(st, c.target), i, TRUE)
  ELSE IF st.session = 0      \* session.endPrompt() on null throws
       THEN CleanupEnds(st, i, FALSE)
  ELSE [st EXCEPT !.cleanups[i] =
          Cleanup(c.sid, NextPhase(c.phase), st.session, c.racing)]

\* The 3 s timer of run i fires first; the sequence keeps running.
CleanupTimesOut(st, i) ==
  CleanupCatch([st EXCEPT !.cleanups[i].racing = FALSE], st.cleanups[i].sid)

(***************************************************************************)
(* ToolExecutor: the action of a ProcessedTool (createToolAction) and      *)
(* executeScript.  A text is a sequence of fragments, so that a template   *)
(* literal is a concatenation; a JavaScript error value is either an Error *)
(* with a message or some other thrown value.                              *)
(***************************************************************************)
NoContext == [isSet |-> FALSE, components |-> {}]

Context(cs) == [isSet |-> TRUE, components |-> cs]

NonEmpty(text) == \E i \in DOMAIN text : text[i] # ""

JsError(message) == [isError |-> TRUE, message |-> message]

NotAnError == [isError |-> FALSE, message |-> <<>>]

NoError == [isError |-> FALSE, message |-> <<"-">>]

\* Values a script can throw or reject with: an Error with a message, an
\* Error with an empty message, a value that is not an Error.
ThrownValues == {JsError(<<"boom">>), JsError(<<"">>), NotAnError}

\* `error instanceof Error ? error.message : 'Unknown error'`
ErrorMessage(e) == IF e.isError THEN e.message ELSE <<"Unknown error">>

\* Values a script's execute() can resolve to.
ReturnValues == {"text", "jsonText", "object", "undefined", "circular"}

SessionIds == {"init", "s1"}

NoPayload == [error |-> FALSE, message |-> <<>>, toolName |-> "-", sessionId |-> "-"]

\* The texts a script returns: a JSON text and a text that is not JSON.
\* JSON.stringify of a string puts it in quotes.
JsonText == <<"{", "ok", "}">>

PlainText == <<"done">>

Quoted(text) == <<"\"">> \o text \o <<"\"">>

ReturnedString(v) == IF v = "jsonText" THEN JsonText ELSE PlainText

NoResult == [kind |-> "none", payload |-> NoPayload, text |-> <<>>]

\* JSON.stringify({error: true, message, toolName, sessionId})
ErrorResult(e, toolName, sid) ==
  [kind |-> "json",
   payload |-> [error |-> TRUE, message |-> ErrorMessage(e),
                toolName |-> toolName, sessionId |-> sid],
   text |-> <<"{", "error", "}">>]

\* Mutant: every returned value goes through JSON.stringify.
StringifyAlways(v) ==
  [kind |-> IF v = "undefined" THEN "undefined" ELSE "json",
   payload |-> NoPayload,
   text |-> IF v \in {"text", "jsonText"} THEN Quoted(ReturnedString(v))
            ELSE IF v = "object" THEN JsonText ELSE <<>>]

\* `typeof result === 'string' ? result : JSON.stringify(result)`: a string
\* is passed through whether or not it is JSON; JSON.stringify(undefined)
\* is undefined.
Stringify(v) ==
  [kind |-> IF v = "text" THEN "text"
            ELSE IF v = "undefined" THEN "undefined" ELSE "json",
   payload |-> NoPayload,
   text |-> IF v \in {"text", "jsonText"} THEN ReturnedString(v)
            ELSE IF v = "object" THEN JsonText ELSE <<>>]

Parseable(r) == r.kind = "json"

\* The error executeScript rejects with, by the way the script fails; its
\* catch wraps whatever was thrown.
ScriptFailures == {"compileError", "noExecute", "throws", "rejects"}

ScriptExecutionFailed(e) ==
  JsError(<<"Script execution failed: ">> \o ErrorMessage(e))

executeScript(script, e) ==
  IF script = "compileError" THEN ScriptExecutionFailed(JsError(<<"Unexpected token">>))
  ELSE IF script = "noExecute"
       THEN ScriptExecutionFailed(
              JsError(<<"Tool script must define an async function named execute">>))
  ELSE ScriptExecutionFailed(e)

ToolCall(toolName, sid, pc, script, e) ==
  [toolName |-> toolName, sessionId |-> sid, pc |-> pc, script |-> script,
   error |-> e, result |-> NoResult, components |-> {}, returned |-> "none"]

\* Mutant: the action keeps the context the executor had when the tool was
\* built, which is the null of the constructor.
ActionOfBuildContext(ctx, toolName, sid, script, e) ==
  ToolCall(toolName, sid, "rejected", "notRun",
           JsError(<<"Tool execution context not set">>))

\* The action up to `await this.executeScript(...)`.  The context check is
\* made before the try block.  toolContext is built by spreading
\* this.executionContext, so the script is handed the components object of
\* the context set at the call.  A script that compiles and defines execute
\* is left running ("pending") unless execute throws synchronously.
createToolAction(ctx, toolName, sid, script, e) ==
  IF ~ctx.isSet
  THEN ToolCall(toolName, sid, "rejected", "notRun",
                JsError(<<"Tool execution context not set">>))
  ELSE [ToolCall(toolName, sid, "awaitScript", script,
                 IF script = "pending" THEN NoError ELSE executeScript(script, e))
          EXCEPT !.components = ctx.components]

\* Mutant: the catch block of the action rethrows.
ToolActionRethrows(call, e) == [call EXCEPT !.pc = "rejected", !.error = e]

\* The catch block of the action.
ToolActionCatch(call, e) ==
  [call EXCEPT !.pc = "resolved", !.error = e,
               !.result = ErrorResult(e, call.toolName, call.sessionId)]

\* The action after `await this.executeScript(...)`: outcome is how a pending
\* script settled ("rejects" with e, or "returns" v).
ToolActionResumes(call, outcome, e, v) ==
  IF call.script # "pending" THEN ToolActionCatch(call, call.error)
  ELSE IF outcome = "rejects"
       THEN ToolActionCatch([call EXCEPT !.script = "rejects"], executeScript("rejects", e))
  ELSE IF v = "circular"     \* JSON.stringify throws a TypeError
       THEN ToolActionCatch([call EXCEPT !.script = "returns"],
                            JsError(<<"Converting circular structure to JSON">>))
  ELSE [call EXCEPT !.script = "returns", !.pc = "resolved", !.returned = v,
                    !.result = Stringify(v)]

ToolInit ==
  /\ executionContext = NoContext
  /\ toolCalls = <<>>

\* ToolExecutor.setExecutionContext
SetExecutionContext ==
  /\ \E cs \in {{}, {"app", "chat", "ui", "auth", "menu", "cart"}} :
       executionContext' = Context(cs)
  /\ UNCHANGED <<envVars, sessVars, regVars, cfgVars, uiVars, toolCalls, flowVars>>

\* A ProcessedTool action is invoked (by the remote client on a toolUse
\* event, or by executeInitializationTools).
InvokeTool ==
  /\ Len(toolCalls) < MaxCalls
  /\ \E t \in ToolNames, sid \in SessionIds,
        script \in {"compileError", "noExecute", "throws", "pending"},
        e \in ThrownValues :
       toolCalls' = Append(toolCalls, createToolAction(executionContext, t, sid, script, e))
  /\ UNCHANGED <<envVars, sessVars, regVars, cfgVars, uiVars, executionContext, flowVars>>

\* The awaited executeScript promise of call i settles.
ScriptSettles ==
  /\ \E i \in DOMAIN toolCalls, outcome \in {"rejects", "returns"},
        e \in ThrownValues, v \in ReturnValues :
       /\ toolCalls[i].pc = "awaitScript"
       /\ toolCalls' = [toolCalls EXCEPT ![i] = ToolActionResumes(@, outcome, e, v)]
  /\ UNCHANGED <<envVars, sessVars, regVars, cfgVars, uiVars, executionContext, flowVars>>

(***************************************************************************)
(* ToolContext registry and the readiness wait.  The registry is React     *)
(* state: areComponentsReady, waitForComponentsReady and                   *)
(* getExecutionContext are callbacks of one render and read the registry   *)
(* of that render.  A handler of the App keeps the callbacks of the render *)
(* in which it was invoked: that registry is the `snapshot` of its run.    *)
(***************************************************************************)
expectedComponents == {"app", "chat", "ui", "auth", "menu", "cart"}

\* A ComponentRegistration: its name and the identity of its methods object.
Registration(name, id) == [name |-> name, id |-> id]

NoRegistration == Registration("", 0)

\* Map.prototype.has, get, set and delete on the entries of a Map.
MapHas(m, name) == \E i \in DOMAIN m : m[i].name = name

MapGet(m, name) ==
  IF MapHas(m, name) THEN m[CHOOSE i \in DOMAIN m : m[i].name = name]
  ELSE NoRegistration

\* Mutant: set adds an entry even if the key is present.
MapSetAppends(m, r) == Append(m, r)

MapSet(m, r) ==
  IF MapHas(m, r.name)
  THEN [i \in DOMAIN m |-> IF m[i].name = r.name THEN r ELSE m[i]]
  ELSE Append(m, r)

\* Mutant: delete of an absent key drops the newest entry.
MapDeleteOrPop(m, name) ==
  IF MapHas(m, name) \/ m = <<>>
  THEN LET Keeps(e) == e.name # name IN SelectSeq(m, Keeps)
  ELSE SubSeq(m, 1, Len(m) - 1)

MapDelete(m, name) ==
  LET Keeps(e) == e.name # name IN SelectSeq(m, Keeps)

MapKeys(m) == {m[i].name : i \in DOMAIN m}

\* The updaters of registerComponent and unregisterComponent.
registerComponent(prev, registration) == MapSet(prev, registration)

unregisterComponent(prev, name) == MapDelete(prev, name)

\* getComponentRegistry: Array.from(componentRegistry.values())
getComponentRegistry(m) == m

Updater(op, r) == [op |-> op, reg |-> r]

RunUpdater(prev, u) ==
  IF u.op = "register" THEN registerComponent(prev, u.reg)
  ELSE unregisterComponent(prev, u.reg.name)

RECURSIVE ApplyUpdates(_, _)
ApplyUpdates(prev, us) ==
  IF us = <<>> THEN prev ELSE ApplyUpdates(RunUpdater(prev, Head(us)), Tail(us))

\* Order of the useAutoRegisterComponent calls of AppContent.
HookOrder == <<"app", "chat", "ui", "auth", "menu", "cart">>

maxAttempts == 50

\* Mutant: ready only if the registry holds the expected components and
\* nothing else.
ReadyWithoutExtras(registry) == registry = expectedComponents

areComponentsReady(registry) == expectedComponents \subseteq registry

Slots == 1..MaxSlots

IdleFlow ==
  [id |-> 0, kind |-> "none", pc |-> "idle", snapshot |-> {}, attempts |-> 0,
   interval |-> FALSE, timedOut |-> FALSE, missing |-> {}, attempted |-> FALSE,
   retry |-> FALSE, credsSeen |-> "none", authSession |-> "unknown", executed |-> FALSE, reason |-> "",
   toolFailed |-> FALSE,
   tools |-> <<>>, invoked |-> <<>>]

FlowCur ==
  [creds |-> creds, executionContext |-> executionContext,
   toolsSkippedDuringConfig |-> toolsSkippedDuringConfig,
   flows |-> flows, finished |-> finished]

FlowCommit(st) ==
  /\ creds' = st.creds
  /\ executionContext' = st.executionContext
  /\ toolsSkippedDuringConfig' = st.toolsSkippedDuringConfig
  /\ flows' = st.flows
  /\ finished' = st.finished

(***************************************************************************)
(* The App's handlers handleConfigSet and handleAuthenticationSuccess      *)
(* after executeInitializationTools has returned {executed, reason}.       *)
(***************************************************************************)
\* Mutant: the handlers leave toolsSkippedDuringConfig alone.
SkipNotRecorded(st, i, executed, reason) ==
  [st EXCEPT !.flows[i] = IdleFlow,
             !.finished = [st.flows[i] EXCEPT !.pc = "done", !.executed = executed,
                                              !.reason = reason, !.tools = <<>>]]

HandlerFinishes(st, i, executed, reason) ==
  LET fl == [st.flows[i] EXCEPT !.pc = "done", !.executed = executed,
                                !.reason = reason, !.tools = <<>>]
  IN [st EXCEPT !.flows[i] = IdleFlow,
                !.finished = fl,
                !.toolsSkippedDuringConfig =
                   IF fl.kind = "config" THEN ~executed
                   ELSE IF executed THEN FALSE ELSE @]

(***************************************************************************)
(* ToolExecutor.executeInitializationTools.                                *)
(***************************************************************************)
\* Mutant: the loop ends at the first tool that failed.
RunUntilFailure(st, i) ==
  LET fl == st.flows[i] IN
  IF fl.tools = <<>> \/ fl.toolFailed
  THEN HandlerFinishes(st, i, TRUE, "All tools completed successfully")
  ELSE [st EXCEPT !.flows[i].tools = Tail(@),
                  !.flows[i].invoked = Append(@, Head(fl.tools)),
                  !.flows[i].pc = "tool"]

\* The loop over the sorted initialization tools, from the next tool on: an
\* action that rejects is caught and the loop goes on.  toolFailed says
\* that an action of the run rejected or resolved to an error payload.
RECURSIVE RunInitTools(_, _)
RunInitTools(st, i) ==
  LET fl == st.flows[i] IN
  IF fl.tools = <<>>
  THEN HandlerFinishes(st, i, TRUE, "All tools completed successfully")
  ELSE LET call == createToolAction(st.executionContext, Head(fl.tools), "init",
                                    "pending", NoError)
           s1   == [st EXCEPT !.flows[i].tools = Tail(@),
                              !.flows[i].invoked = Append(@, Head(fl.tools))]
       IN IF call.pc = "rejected"
          THEN RunInitTools([s1 EXCEPT !.flows[i].toolFailed = TRUE], i)
          ELSE [s1 EXCEPT !.flows[i].pc = "tool"]

\* getInitializationTools
getInitializationTools(cat) ==
  SelectSeq(loadToolsFromConfig(cat),
            LAMBDA t : FindConfig(cat, t.toolname).run_after_app_init)

\* After a valid session: the initialization tools, sorted by order.
RunAfterValidation(st, i, cat) ==
  LET sortedTools == SortByOrder(cat, getInitializationTools(cat))
  IN IF sortedTools = <<>> THEN HandlerFinishes(st, i, TRUE, "No tools configured")
     ELSE RunInitTools([st EXCEPT !.flows[i].tools = ToolNamesOf(sortedTools)], i)

\* Mutant: the tools are run whatever the validation says.
RunToolsUnvalidated(st, i, reason) ==
  [st EXCEPT !.flows[i].pc = "tool", !.flows[i].invoked = <<"T1">>]

\* validateCognitoSession found the session invalid.
SkipInitTools(st, i, reason) == HandlerFinishes(st, i, FALSE, reason)

\* Outcomes of `await fetchAuthSession()`.
AuthOutcomes == {"ok", "noCredentials", "noIdToken", "throws"}

AuthReason(outcome) ==
  IF outcome = "noCredentials" THEN "No valid auth session available"
  ELSE IF outcome = "noIdToken" THEN "No valid ID token available"
  ELSE "Session validation error"

\* validateCognitoSession up to its first await.  getCredentials has read
\* the clock once; `lapsed` says that the expiration passed before the
\* second reading.
validateCognitoSession(st, i, lapsed) ==
  LET c  == GetCredentials(st.creds)
      s1 == [st EXCEPT !.creds = CredsAfterGet(@),
                       !.flows[i].attempted = TRUE,
                       !.flows[i].credsSeen = st.creds]
  IN IF c = "null" THEN SkipInitTools(s1, i, "No credentials found in session storage")
     ELSE IF c = "valid" /\ lapsed
          THEN SkipInitTools([s1 EXCEPT !.creds = "expired"], i,
                             "Stored credentials have expired")
     ELSE [s1 EXCEPT !.flows[i].pc = "validating"]

\* Mutant: after a wait that timed out the handler gives up.
GiveUpAfterTimeout(st, i, lapsed) ==
  IF st.flows[i].timedOut THEN HandlerFinishes(st, i, FALSE, "Components not ready")
  ELSE validateCognitoSession(
         [st EXCEPT !.executionContext = Context(st.flows[i].snapshot)], i, lapsed)

\* A handler after `await waitForComponentsReady()`: the context is taken
\* again, from the registry of the handler's render, and the
\* initialization tools are executed.
AfterWait(st, i, lapsed) ==
  validateCognitoSession(
    [st EXCEPT !.executionContext = Context(st.flows[i].snapshot)], i, lapsed)

(***************************************************************************)
(* ToolContext.waitForComponentsReady.                                     *)
(***************************************************************************)
waitForComponentsReady(st, i, lapsed) ==
  IF areComponentsReady(st.flows[i].snapshot) THEN AfterWait(st, i, lapsed)
  ELSE [st EXCEPT !.flows[i].pc = "polling", !.flows[i].interval = TRUE]

\* resolve(): the awaiting handler resumes; resolving again does nothing.
ResolveWait(st, i, lapsed) ==
  IF st.flows[i].pc = "polling" THEN AfterWait(st, i, lapsed) ELSE st

\* Mutant: on exhaustion the wait stops polling but does not resolve.
NoResolveOnTimeout(st, i, lapsed) ==
  LET s1 == [st EXCEPT !.flows[i].attempts = @ + 1] IN
  IF areComponentsReady(s1.flows[i].snapshot)
  THEN ResolveWait([s1 EXCEPT !.flows[i].interval = FALSE], i, lapsed)
  ELSE IF s1.flows[i].attempts >= maxAttempts
       THEN [s1 EXCEPT !.flows[i].interval = FALSE, !.flows[i].timedOut = TRUE,
                       !.flows[i].missing = expectedComponents \ s1.flows[i].snapshot]
  ELSE s1

\* The interval callback.
PollCallback(st, i, lapsed) ==
  LET s1 == [st EXCEPT !.flows[i].attempts = @ + 1] IN
  IF areComponentsReady(s1.flows[i].snapshot)
  THEN ResolveWait([s1 EXCEPT !.flows[i].interval = FALSE], i, lapsed)
  ELSE IF s1.flows[i].attempts >= maxAttempts
       THEN ResolveWait([s1 EXCEPT !.flows[i].interval = FALSE,
                                  !.flows[i].timedOut = TRUE,
                                  !.flows[i].missing =
                                     expectedComponents \ s1.flows[i].snapshot],
                        i, lapsed)
  ELSE s1

\* A handler up to its first await: the context is set from the registry of
\* the handler's render, then the handler sleeps (300 ms or 500 ms).
StartFlow(st, i, id, kind, registry) ==
  [st EXCEPT !.executionContext = Context(registry),
             !.finished = IdleFlow,
             !.flows[i] = [IdleFlow EXCEPT !.id = id, !.kind = kind, !.pc = "delay",
                                           !.snapshot = registry,
                                           !.retry = st.toolsSkippedDuringConfig]]

(***************************************************************************)
(* Actions of the initialization flow.                                     *)
(***************************************************************************)
FreeSlot(i) == flows[i].pc = "idle" /\ \A j \in 1..(i - 1) : flows[j].pc # "idle"

ActiveFlows == Cardinality({i \in Slots : flows[i].pc # "idle"})

\* A useAutoRegisterComponent effect of AppContent registers its component;
\* the App's registry effect then republishes the context if the user is
\* authenticated and menu and cart are registered.
RegisterComponent ==
  /\ Cardinality(componentRegistry) < Len(HookOrder)
  /\ LET name     == HookOrder[Cardinality(componentRegistry) + 1]
         registry == componentRegistry \cup {name}
     IN /\ componentRegistry' = registry
        /\ registrations' = registerComponent(registrations, Registration(name, 1))
        /\ applied' = <<Updater("register", Registration(name, 1))>>
        /\ held' = registrations
        /\ UNCHANGED updates
        /\ executionContext' =
             IF isAuthenticatedRef /\ {"menu", "cart"} \subseteq registry
             THEN Context(registry) ELSE executionContext
  /\ UNCHANGED <<envVars, sessVars, cfgVars, uiVars, toolCalls, isAuthenticatedRef,
                 toolsSkippedDuringConfig, credentialsReady, hasNotifiedAuth, flows, finished,
                 flowsStarted>>

\* AuthenticatedWrapper.fetchCredentials: the user has signed in, the
\* credentials of the identity session are stored.
FetchCredentials ==
  /\ ~credentialsReady
  /\ creds' = "valid"
  /\ credentialsReady' = TRUE
  /\ UNCHANGED <<catalog, sessVars, regVars, cfgVars, uiVars, toolVars, componentRegistry, isAuthenticatedRef,
                 toolsSkippedDuringConfig, hasNotifiedAuth, flows, finished, flowsStarted>>

\* Time passes the expiration of the stored credentials.
CredentialsExpire ==
  /\ creds = "valid"
  /\ creds' = "expired"
  /\ UNCHANGED <<catalog, sessVars, regVars, cfgVars, uiVars, toolVars, componentRegistry, isAuthenticatedRef,
                 toolsSkippedDuringConfig, credentialsReady, hasNotifiedAuth, flows,
                 finished, flowsStarted>>

\* App.handleConfigSet up to its first await, called while fewer than
\* `capacity` handlers are in progress.
handleConfigSet(capacity) ==
  /\ ActiveFlows < capacity
  /\ flowsStarted < MaxFlows
  /\ flowsStarted' = flowsStarted + 1
  /\ \E i \in Slots :
       /\ FreeSlot(i)
       /\ FlowCommit(StartFlow(FlowCur, i, flowsStarted + 1, "config", componentRegistry))
  /\ UNCHANGED <<catalog, sessVars, regVars, cfgVars, uiVars, toolCalls, componentRegistry, isAuthenticatedRef,
                 credentialsReady, hasNotifiedAuth>>

ConfigSet == handleConfigSet(MaxActiveFlows)

\* Mutant: handleAuthenticationSuccess does not look at isAuthenticatedRef.
AuthSuccessUnguarded(capacity) ==
  /\ credentialsReady /\ ~hasNotifiedAuth
  /\ hasNotifiedAuth' = TRUE
  /\ deliveries' = deliveries + 1
  /\ ActiveFlows < capacity
  /\ flowsStarted < MaxFlows
  /\ flowsStarted' = flowsStarted + 1
  /\ isAuthenticatedRef' = TRUE
  /\ authRuns' = authRuns + 1
  /\ \E i \in Slots :
       /\ FreeSlot(i)
       /\ FlowCommit(StartFlow(FlowCur, i, flowsStarted + 1, "auth", componentRegistry))
  /\ UNCHANGED <<catalog, sessVars, regVars, cfgVars, capVars, setVars, toolCalls,
                 componentRegistry, credentialsReady>>

\* AuthenticatedWrapper notifies its parent once; App.handleAuthenticationSuccess
\* up to its first await, which ignores the call if isAuthenticatedRef is set.
\* The handler is called while fewer than `capacity` handlers are in progress.
handleAuthenticationSuccess(capacity) ==
  /\ credentialsReady /\ ~hasNotifiedAuth
  /\ hasNotifiedAuth' = TRUE
  /\ deliveries' = deliveries + 1
  /\ IF isAuthenticatedRef
     THEN UNCHANGED <<creds, executionContext, toolsSkippedDuringConfig, flows, finished,
                      isAuthenticatedRef, flowsStarted, authRuns>>
     ELSE /\ ActiveFlows < capacity
          /\ flowsStarted < MaxFlows
          /\ flowsStarted' = flowsStarted + 1
          /\ isAuthenticatedRef' = TRUE
          /\ authRuns' = authRuns + 1
          /\ \E i \in Slots :
               /\ FreeSlot(i)
               /\ FlowCommit(StartFlow(FlowCur, i, flowsStarted + 1, "auth",
                                       componentRegistry))
  /\ UNCHANGED <<catalog, sessVars, regVars, cfgVars, capVars, setVars, toolCalls,
                 componentRegistry, credentialsReady>>

NotifyParent == handleAuthenticationSuccess(MaxActiveFlows)

\* App.handleSignOut: the stored credentials are cleared and the ref reset;
\* when Cognito has signed the user out, AuthenticatedWrapper unmounts.
SignOut ==
  /\ credentialsReady
  /\ creds' = "none"
  /\ isAuthenticatedRef' = FALSE
  /\ \E signedOut \in BOOLEAN :
       /\ credentialsReady' = (credentialsReady /\ ~signedOut)
       /\ hasNotifiedAuth' = (hasNotifiedAuth /\ ~signedOut)
  /\ deliveries' = 0
  /\ authRuns' = 0
  /\ UNCHANGED <<catalog, sessVars, regVars, cfgVars, capVars, setVars, toolVars,
                 componentRegistry, toolsSkippedDuringConfig, flows, finished, flowsStarted>>

\* The Authenticator unmounts AuthenticatedWrapper and mounts it again while
\* the App stays signed in: credentialsReady and hasNotifiedAuth start again
\* from their initial values, and the wrapper will fetch and notify again.
WrapperRemounts ==
  /\ hasNotifiedAuth
  /\ deliveries < MaxDeliveries
  /\ credentialsReady' = FALSE
  /\ hasNotifiedAuth' = FALSE
  /\ UNCHANGED <<envVars, sessVars, regVars, cfgVars, uiVars, toolVars, componentRegistry,
                 isAuthenticatedRef, toolsSkippedDuringConfig, flows, finished,
                 flowsStarted>>

\* The two handlers called at any time, also during another handler's run.
ConfigSetAnytime == handleConfigSet(MaxSlots)

AuthSuccessAnytime == handleAuthenticationSuccess(MaxSlots)

FlowFrame ==
  UNCHANGED <<catalog, sessVars, regVars, cfgVars, uiVars, toolCalls, componentRegistry, isAuthenticatedRef,
              credentialsReady, hasNotifiedAuth, flowsStarted>>

\* The handler's sleep ends and it calls waitForComponentsReady.
DelayElapses(i) ==
  /\ flows[i].pc = "delay"
  /\ \E lapsed \in BOOLEAN : FlowCommit(waitForComponentsReady(FlowCur, i, lapsed))
  /\ FlowFrame

\* The 100 ms interval of a wait fires.
PollTick(i) ==
  /\ flows[i].interval
  /\ \E lapsed \in BOOLEAN : FlowCommit(PollCallback(FlowCur, i, lapsed))
  /\ FlowFrame

AfterFetchAuthSession(st, i, outcome, cat) ==
  IF outcome = "ok"
  THEN RunAfterValidation([st EXCEPT !.flows[i].authSession = outcome], i, cat)
  ELSE SkipInitTools([st EXCEPT !.flows[i].authSession = outcome], i, AuthReason(outcome))

\* validateCognitoSession after `await fetchAuthSession()`, and
\* executeInitializationTools after it.
AuthSessionSettles(i) ==
  /\ flows[i].pc = "validating"
  /\ \E outcome \in AuthOutcomes :
       FlowCommit(AfterFetchAuthSession(FlowCur, i, outcome, catalog))
  /\ FlowFrame

\* The awaited action of an initialization tool settles, with its result
\* or with an error payload.
InitToolSettles(i) ==
  /\ flows[i].pc = "tool"
  /\ \E failure \in BOOLEAN :
       FlowCommit(RunInitTools([FlowCur EXCEPT !.flows[i].toolFailed = @ \/ failure], i))
  /\ FlowFrame

FlowInit ==
  /\ componentRegistry = {}
  /\ isAuthenticatedRef = FALSE
  /\ toolsSkippedDuringConfig = FALSE
  /\ credentialsReady = FALSE
  /\ hasNotifiedAuth = FALSE
  /\ flows = [i \in Slots |-> IdleFlow]
  /\ finished = IdleFlow
  /\ flowsStarted = 0
  /\ registrations = <<>>
  /\ updates = <<>>
  /\ applied = <<>>
  /\ held = <<>>
  /\ processedTools = <<>>
  /\ initTools = <<>>
  /\ CapInit
  /\ SetInit
  /\ AuthInit

(***************************************************************************)
(* Actions of the registry specification.                                  *)
(***************************************************************************)
RegistryNames == {"menu", "cart", "extra"}

RegistrationIds == {1, 2}

\* registerComponent(registration) is called: the updater is queued.
CallRegister ==
  /\ Len(updates) < MaxUpdates
  /\ \E name \in RegistryNames, id \in RegistrationIds :
       updates' = Append(updates, Updater("register", Registration(name, id)))
  /\ UNCHANGED <<envVars, sessVars, toolVars, flowVars, cfgVars, uiVars, registrations, applied, held>>

\* unregisterComponent(name) is called: the updater is queued.
CallUnregister ==
  /\ Len(updates) < MaxUpdates
  /\ \E name \in RegistryNames :
       updates' = Append(updates, Updater("unregister", Registration(name, 0)))
  /\ UNCHANGED <<envVars, sessVars, toolVars, flowVars, cfgVars, uiVars, registrations, applied, held>>

\* React renders ToolProvider: the queued updaters are applied in order, and
\* the App's registry effect runs with the callbacks of the new render.
RenderProvider ==
  /\ updates # <<>>
  /\ registrations' = ApplyUpdates(registrations, updates)
  /\ applied' = updates
  /\ held' = registrations
  /\ updates' = <<>>
  /\ componentRegistry' = MapKeys(registrations')
  /\ executionContext' =
       IF isAuthenticatedRef /\ {"menu", "cart"} \subseteq componentRegistry'
       THEN Context(componentRegistry') ELSE executionContext
  /\ UNCHANGED <<envVars, sessVars, cfgVars, uiVars, toolCalls, isAuthenticatedRef,
                 toolsSkippedDuringConfig, credentialsReady, hasNotifiedAuth, flows, finished,
                 flowsStarted>>

(***************************************************************************)
(* Actions of the session specification.                                   *)
(***************************************************************************)
\* Promise continuations run before any new task.
Drained == pendingLoads = <<>>

\* App.startStreaming up to its first await.  The stored credentials are
\* whatever sign-in, sign-out and the passing of time have left there.
startStreaming ==
  /\ ~isStreamingRef
  /\ starts < MaxStarts
  /\ starts' = starts + 1
  /\ UNCHANGED <<catalog, isStreamingRef>>
  /\ UNCHANGED <<toolVars, flowVars, regVars, cfgVars, uiVars>>
  /\ IF sessionInitializedRef
     THEN /\ resumed' = resumed + 1
          /\ UNCHANGED <<creds, bedrockClient, session, sessionId, listeners,
                         pendingLoads, sessionInitializedRef, inflight, teardowns,
                         cleanups, active, disconnected,
                         busLog, remoteLog, lastTools, lastError, failed, freshStart>>
     ELSE /\ freshStart' = (session = 0)
          /\ \E c \in CredStates, createOk \in BOOLEAN :
               Commit(initializeSession([Cur EXCEPT !.creds = c], starts + 1, createOk))

\* startStreaming called while no handleSessionCreated awaits its tools.
StartStreaming == Drained /\ startStreaming

\* startStreaming called while a handleSessionCreated of an earlier call
\* still awaits loadToolsFromConfig.
StartDuringHandshake == ~Drained /\ startStreaming

\* handleSessionCreated resumes after loadToolsFromConfig.
LoadedTools ==
  /\ pendingLoads # <<>>
  /\ \E initOk \in BOOLEAN, bad \in SUBSET {"T1"} :
       Commit(DispatchInitiateSession(
                [Cur EXCEPT !.pendingLoads = Tail(@)], Head(pendingLoads),
                ToolNamesOf(loadToolsFromConfig(catalog)), bad, initOk))
  /\ UNCHANGED <<catalog, starts, isStreamingRef, freshStart>>
  /\ UNCHANGED <<toolVars, flowVars, regVars, cfgVars, uiVars>>

\* An awaited setup call settles; a rejection becomes an error event.
SetupSettles ==
  /\ Drained
  /\ \E op \in SetupOps, ok \in BOOLEAN :
       /\ inflight[op] # <<>>
       /\ LET s1 == [Cur EXCEPT !.inflight[op] = Tail(@)]
          IN Commit(IF ok THEN s1 ELSE Caught(s1, op, SetupError(op)))
  /\ UNCHANGED <<catalog, starts, isStreamingRef, freshStart>>
  /\ UNCHANGED <<toolVars, flowVars, regVars, cfgVars, uiVars>>

\* App.startStreaming after `await initializeSession()`: audio is set up and
\* setIsStreaming(true) follows, unless the audio set-up throws.
StreamingStarted ==
  /\ Drained
  /\ resumed > 0
  /\ resumed' = resumed - 1
  /\ \E ok \in BOOLEAN : isStreamingRef' = (ok \/ isStreamingRef)
  /\ UNCHANGED <<envVars, bedrockClient, session, sessionId, starts, listeners,
                 pendingLoads, sessionInitializedRef, inflight, teardowns, cleanups,
                 active, disconnected, busLog,
                 remoteLog, lastTools, lastError, failed, freshStart>>
  /\ UNCHANGED <<toolVars, flowVars, regVars, cfgVars, uiVars>>

\* App.stopStreaming: dispatches stopAudio.
StopStreaming ==
  /\ Drained
  /\ isStreamingRef
  /\ isStreamingRef' = FALSE
  /\ Commit(OnStopAudio([Dispatch(Cur, "stopAudio")
                           EXCEPT !.sessionInitializedRef = FALSE]))
  /\ UNCHANGED <<catalog, starts, freshStart>>
  /\ UNCHANGED <<toolVars, flowVars, regVars, cfgVars, uiVars>>

TeardownSettles ==
  /\ Drained
  /\ \E i \in 1..Len(teardowns), ok \in BOOLEAN : Commit(TeardownStep(Cur, i, ok))
  /\ UNCHANGED <<catalog, starts, isStreamingRef, freshStart>>
  /\ UNCHANGED <<toolVars, flowVars, regVars, cfgVars, uiVars>>

\* The events whose handlers return at once when there is no session.
SessionEvents == {"audioInput", "promptStart", "systemPrompt", "audioStart", "stopAudio"}

OnSessionEvent(st, ev, ok) ==
  IF ev = "audioInput" THEN OnAudioInput(st, ok)
  ELSE IF ev = "promptStart" THEN OnPromptStart(st)
  ELSE IF ev = "systemPrompt" THEN OnSystemPrompt(st)
  ELSE IF ev = "audioStart" THEN OnAudioStart(st)
  ELSE OnStopAudio(st)

\* One of these events is dispatched on the bus, whatever the state of the
\* session.
DispatchSessionEvent ==
  /\ Len(busLog) < MaxBusEvents
  /\ \E ev \in SessionEvents, ok \in BOOLEAN :
       Commit(OnSessionEvent(Dispatch(Cur, ev), ev, ok))
  /\ UNCHANGED <<catalog, starts, isStreamingRef, freshStart>>
  /\ UNCHANGED <<toolVars, flowVars, regVars, cfgVars, uiVars>>

\* A disconnect event is dispatched on the bus.
Disconnect ==
  /\ Drained
  /\ Len(cleanups) + Len(disconnected) < MaxDisconnects
  /\ Cardinality({i \in DOMAIN busLog : busLog[i] = "disconnect"}) < MaxDisconnects
  /\ Commit(OnDisconnect(Cur))
  /\ UNCHANGED <<catalog, starts, isStreamingRef, freshStart>>
  /\ UNCHANGED <<toolVars, flowVars, regVars, cfgVars, uiVars>>

CleanupSettles ==
  /\ Drained
  /\ \E i \in 1..Len(cleanups), ok \in BOOLEAN : Commit(CleanupStep(Cur, i, ok))
  /\ UNCHANGED <<catalog, starts, isStreamingRef, freshStart>>
  /\ UNCHANGED <<toolVars, flowVars, regVars, cfgVars, uiVars>>

CleanupTimeout ==
  /\ Drained
  /\ \E i \in 1..Len(cleanups) :
       /\ cleanups[i].racing
       /\ Commit(CleanupTimesOut(Cur, i))
  /\ UNCHANGED <<catalog, starts, isStreamingRef, freshStart>>
  /\ UNCHANGED <<toolVars, flowVars, regVars, cfgVars, uiVars>>

SessInit ==
  /\ bedrockClient = FALSE
  /\ session = 0
  /\ sessionId = 0
  /\ starts = 0
  /\ listeners = 0
  /\ pendingLoads = <<>>
  /\ sessionInitializedRef = FALSE
  /\ isStreamingRef = FALSE
  /\ resumed = 0
  /\ inflight = [op \in SetupOps |-> <<>>]
  /\ teardowns = <<>>
  /\ cleanups = <<>>
  /\ active = {}
  /\ disconnected = <<>>
  /\ busLog = <<>>
  /\ remoteLog = <<>>
  /\ lastTools = <<>>
  /\ lastError = ""
  /\ failed = {}
  /\ freshStart = TRUE

Init ==
  /\ creds = "none"
  /\ catalog \in Catalogs
  /\ SessInit
  /\ ToolInit
  /\ FlowInit

Next ==
  \/ StartStreaming
  \/ LoadedTools
  \/ SetupSettles
  \/ StreamingStarted
  \/ StopStreaming
  \/ TeardownSettles

Spec == Init /\ [][Next]_vars

(***************************************************************************)
(* Specification of the session with disconnect events.  The settling of   *)
(* the setup calls is left out: it reads and writes none of the variables  *)
(* of the closing sequences.                                               *)
(***************************************************************************)
NextDisconnect ==
  \/ StartStreaming
  \/ LoadedTools
  \/ StreamingStarted
  \/ StopStreaming
  \/ TeardownSettles
  \/ Disconnect
  \/ CleanupSettles
  \/ CleanupTimeout

SpecDisconnect == Init /\ [][NextDisconnect]_vars

(***************************************************************************)
(* Specification of the tool actions.                                      *)
(***************************************************************************)
InitTool ==
  /\ creds = "none"
  /\ catalog = <<>>
  /\ SessInit
  /\ ToolInit
  /\ FlowInit

NextTool ==
  \/ SetExecutionContext
  \/ InvokeTool
  \/ ScriptSettles

SpecTool == InitTool /\ [][NextTool]_vars

(***************************************************************************)
(* Specification of the initialization flow.  Under fairness timers fire:  *)
(* the sleep of a handler ends and the interval of a wait ticks while it   *)
(* is set.  Nothing is assumed of the promises of the identity service and *)
(* of the tool scripts.                                                    *)
(***************************************************************************)
InitCatalogs ==
  { <<>>,
    <<Tool("T2", 2, TRUE), Tool("T1", 1, TRUE)>>,
    <<Tool("T1", 3, TRUE), Tool("T2", 2, TRUE), Tool("T1", 1, TRUE)>> }

InitFlows ==
  /\ creds = "none"
  /\ catalog \in InitCatalogs
  /\ SessInit
  /\ ToolInit
  /\ FlowInit

NextFlows ==
  \/ RegisterComponent
  \/ FetchCredentials
  \/ CredentialsExpire
  \/ ConfigSet
  \/ NotifyParent
  \/ SignOut
  \/ \E i \in Slots : DelayElapses(i)
  \/ \E i \in Slots : PollTick(i)
  \/ \E i \in Slots : AuthSessionSettles(i)
  \/ \E i \in Slots : InitToolSettles(i)

SpecFlows == InitFlows /\ [][NextFlows]_vars

(***************************************************************************)
(* Specification of the loading of a stored catalog.  A catalog reaches    *)
(* the store through the settings form, which refuses duplicate names but  *)
(* accepts an empty schema text, or through an import, which refuses a     *)
(* schema that does not parse but accepts duplicate names.                 *)
(***************************************************************************)
ToolConfigs ==
  {ToolConfig(n, o, init, schema) :
     n \in ToolNames, o \in 0..2, init \in BOOLEAN, schema \in {"valid", "malformed"}}

UniqueNames(cat) ==
  \A i, j \in DOMAIN cat : cat[i].tool_name = cat[j].tool_name => i = j

Storable(cat) ==
  \/ UniqueNames(cat)
  \/ \A i \in DOMAIN cat : cat[i].inputSchema = "valid"

StoredCatalogs ==
  UNION {{cat \in [1..n -> ToolConfigs] : Storable(cat)} : n \in 0..MaxTools}

InitCatalog ==
  /\ creds = "none"
  /\ catalog \in StoredCatalogs
  /\ SessInit
  /\ ToolInit
  /\ FlowInit

\* The executor loads the catalog and filters the initialization tools.
LoadTools ==
  /\ processedTools' = loadToolsFromConfig(catalog)
  /\ initTools' = getInitializationTools(catalog)
  /\ UNCHANGED <<envVars, sessVars, toolVars, flowVars, regVars, uiVars>>

NextCatalog == LoadTools

SpecCatalog == InitCatalog /\ [][NextCatalog]_vars

(***************************************************************************)
(* The capabilities of AppContent.  useAutoRegisterComponent memoizes the  *)
(* registration on name, description and category and registers it in an   *)
(* effect with no dependency: the methods in the registry are those of the *)
(* render in which the component mounted, and their closures hold the      *)
(* state of that render.  State setters are stable and act on the current  *)
(* state.                                                                  *)
(***************************************************************************)
AppReads == {"getStatus", "isCurrentlyStreaming", "getMessages"}

AuthAccessors == {"getCredentials", "getTokens", "getJWT", "getUserInfo"}

AuthSessions == {"tokens", "none", "throws"}

BoolText(b) == IF b THEN "true" ELSE "false"

HistoryText(n) == IF n = 0 THEN "[]" ELSE IF n = 1 THEN "[m1]" ELSE "[m1,...]"

\* What a reading method of app or chat returns when its closure holds st.
Read(m, st) ==
  IF m = "getStatus" THEN st.status
  ELSE IF m = "isCurrentlyStreaming" THEN BoolText(st.isStreaming)
  ELSE HistoryText(st.chat)

\* The methods of the auth component: getCredentials reads the stored
\* credentials, getTokens and getJWT await fetchAuthSession and catch its
\* rejection, getUserInfo reads isAuthenticated of its closure.
AuthMethod(m, closure, c, authSession) ==
  IF m = "getCredentials" THEN GetCredentials(c)
  ELSE IF m = "getTokens" THEN (IF authSession = "tokens" THEN "tokens" ELSE "nulls")
  ELSE IF m = "getJWT" THEN (IF authSession = "tokens" THEN "jwt" ELSE "null")
  ELSE (IF closure.isAuthenticated THEN "authenticated" ELSE "anonymous")

\* {idToken: null, accessToken: null, refreshToken: null} for getTokens,
\* null for the others.
NullOf(m) == IF m = "getTokens" THEN "nulls" ELSE "null"

\* Mutant: the accessor calls the auth component without looking whether
\* it is there.
AuthAccessorUnguarded(components, m, c, authSession) ==
  IF components.present THEN AuthMethod(m, components.closure, c, authSession)
  ELSE "throws"

\* The accessors of context.auth: components.auth is looked up when the
\* accessor is called.
AuthAccessor(components, m, c, authSession) ==
  IF components.present THEN AuthMethod(m, components.closure, c, authSession)
  ELSE NullOf(m)

\* AppContent mounts: its first render has the initial state, and the
\* effects of useAutoRegisterComponent register the methods of that render.
MountApp ==
  /\ ~appMethods.present
  /\ appState' = InitialAppState
  /\ appMethods' = Methods(TRUE, appState')
  /\ UNCHANGED <<toolComponents, observed>>
  /\ UNCHANGED <<envVars, sessVars, toolVars, flowVars, regVars, cfgVars, setVars, authVars>>

\* AppContent unmounts: the cleanups of the effects unregister.
UnmountApp ==
  /\ appMethods.present
  /\ appMethods' = NoMethods
  /\ UNCHANGED <<appState, toolComponents, observed>>
  /\ UNCHANGED <<envVars, sessVars, toolVars, flowVars, regVars, cfgVars, setVars, authVars>>

\* A state setter of the mounted AppContent is called (by the app or by a
\* tool through app.setStatus, chat.addMessage): the component renders
\* again with the new state; nothing is registered again.
SetAppState ==
  /\ appMethods.present
  /\ \E st \in AppStates :
       /\ \/ st = [appState EXCEPT !.status = st.status]
          \/ st = [appState EXCEPT !.isStreaming = st.isStreaming]
          \/ st = [appState EXCEPT !.isAuthenticated = st.isAuthenticated]
          \/ st = [appState EXCEPT !.chat = appState.chat + 1]
          \/ st = [appState EXCEPT !.chat = 0]
       /\ st # appState
       /\ appState' = st
  /\ UNCHANGED <<appMethods, toolComponents, observed>>
  /\ UNCHANGED <<envVars, sessVars, toolVars, flowVars, regVars, cfgVars, setVars, authVars>>

\* getExecutionContext: components[name] = registration.methods.
PublishComponents ==
  /\ toolComponents' = appMethods
  /\ UNCHANGED <<appState, appMethods, observed>>
  /\ UNCHANGED <<envVars, sessVars, toolVars, flowVars, regVars, cfgVars, setVars, authVars>>

\* The settings store gets other credentials.
StoreCredentials ==
  /\ \E c \in CredStates : c # creds /\ creds' = c
  /\ UNCHANGED <<catalog, capVars>>
  /\ UNCHANGED <<sessVars, toolVars, flowVars, regVars, cfgVars, setVars, authVars>>

\* A tool calls components.app.getStatus(), .isCurrentlyStreaming() or
\* components.chat.getMessages().
CallCapability ==
  /\ toolComponents.present
  /\ \E m \in AppReads :
       observed' = Observed(m, TRUE, Read(m, toolComponents.closure), Read(m, appState))
  /\ UNCHANGED <<appState, appMethods, toolComponents>>
  /\ UNCHANGED <<envVars, sessVars, toolVars, flowVars, regVars, cfgVars, setVars, authVars>>

\* A tool calls an accessor of context.auth.  SettingsManager.getCredentials
\* removes expired credentials from the store.
CallAuthAccessor ==
  /\ \E m \in AuthAccessors, authSession \in AuthSessions :
       /\ observed' = Observed(m, toolComponents.present,
                               AuthAccessor(toolComponents, m, creds, authSession),
                               AuthMethod(m, toolComponents.closure, creds, authSession))
       /\ creds' = IF m = "getCredentials" /\ toolComponents.present
                   THEN CredsAfterGet(creds) ELSE creds
  /\ UNCHANGED <<catalog, appState, appMethods, toolComponents>>
  /\ UNCHANGED <<sessVars, toolVars, flowVars, regVars, cfgVars, setVars, authVars>>

InitCapability ==
  /\ creds \in CredStates
  /\ catalog = <<>>
  /\ SessInit
  /\ ToolInit
  /\ FlowInit

NextCapability ==
  \/ MountApp
  \/ UnmountApp
  \/ SetAppState
  \/ PublishComponents
  \/ StoreCredentials
  \/ CallCapability
  \/ CallAuthAccessor

SpecCapability == InitCapability /\ [][NextCapability]_vars

(***************************************************************************)
(* The settings page.  A tool is kept as its tool_name and order, a global *)
(* parameter as its key and order; "" is the empty text of a new entry.    *)
(* The page sorts both arrays by order in place each time it renders.      *)
(***************************************************************************)
SettingsTool(n, o) == [tool_name |-> n, order |-> o]

GlobalParameter(k, o) == [key |-> k, order |-> o]

SettingsToolNames == {"T1", "T2"}

ParameterKeys == {"k", "K"}

\* key.toLowerCase()
ToLowerCase(k) == IF k = "K" THEN "k" ELSE k

\* arr.sort((a, b) => a.order - b.order), which is stable.
RECURSIVE InsertSorted(_, _)
InsertSorted(r, t) ==
  IF r = <<>> THEN <<t>>
  ELSE IF t.order < r[Len(r)].order
       THEN InsertSorted(SubSeq(r, 1, Len(r) - 1), t) \o <<r[Len(r)]>>
       ELSE r \o <<t>>

RECURSIVE SortedByOrder(_)
SortedByOrder(s) ==
  IF s = <<>> THEN <<>>
  ELSE InsertSorted(SortedByOrder(SubSeq(s, 1, Len(s) - 1)), s[Len(s)])

\* .map((item, index) => ({...item, order: index + 1}))
Renumbered(s) == [i \in DOMAIN s |-> [s[i] EXCEPT !.order = i]]

reorderTools(ts) == Renumbered(SortedByOrder(ts))

reorderGlobalParameters(ps) == Renumbered(SortedByOrder(ps))

\* arrayMove of @dnd-kit/sortable: the element at `from` is taken out and
\* put at `to`.
arrayMove(s, from, to) ==
  LET rest == SubSeq(s, 1, from - 1) \o SubSeq(s, from + 1, Len(s))
  IN SubSeq(rest, 1, to - 1) \o <<s[from]>> \o SubSeq(rest, to, Len(rest))

\* findIndex(item => `tool-${item.order}` === id)
FindIndexByOrder(s, o) ==
  CHOOSE i \in DOMAIN s : s[i].order = o /\ \A j \in DOMAIN s : s[j].order = o => i <= j

\* Math.max(0, ...orders)
MaxOrder(s) ==
  IF s = <<>> THEN 0
  ELSE CHOOSE m \in {s[i].order : i \in DOMAIN s} : \A i \in DOMAIN s : s[i].order <= m

RemoveIndex(s, i) == SubSeq(s, 1, i - 1) \o SubSeq(s, i + 1, Len(s))

\* SettingsManager.validateToolsArray: no name twice, every name given.
validateToolsArray(ts) ==
  /\ \A i, j \in DOMAIN ts : ts[i].tool_name = ts[j].tool_name => i = j
  /\ \A i \in DOMAIN ts : ts[i].tool_name # ""

\* SettingsManager.validateGlobalParametersArray: no key twice whatever the
\* case, every key given.
validateGlobalParametersArray(ps) ==
  /\ \A i, j \in DOMAIN ps : ToLowerCase(ps[i].key) = ToLowerCase(ps[j].key) => i = j
  /\ \A i \in DOMAIN ps : ps[i].key # ""

validateForm(cfg) ==
  validateToolsArray(cfg.tools) /\ validateGlobalParametersArray(cfg.globalParameters)

\* SettingsManager.validateImportData looks at each tool and each parameter
\* by itself: a name and a key must be non-empty strings.
validateImportData(cfg) ==
  /\ \A i \in DOMAIN cfg.tools : cfg.tools[i].tool_name # ""
  /\ \A i \in DOMAIN cfg.globalParameters : cfg.globalParameters[i].key # ""

\* The agent configurations of the files offered to the import.
ImportFiles ==
  { AgentConfig(<<SettingsTool("T1", 2)>>, <<GlobalParameter("k", 2)>>),
    AgentConfig(<<SettingsTool("T1", 1), SettingsTool("T1", 2)>>,
                <<GlobalParameter("k", 1), GlobalParameter("K", 2)>>),
    AgentConfig(<<SettingsTool("", 1)>>, <<>>) }

\* The page renders: both arrays are sorted in place.
Rendered(cfg) ==
  AgentConfig(SortedByOrder(cfg.tools), SortedByOrder(cfg.globalParameters))

addNewTool ==
  /\ Len(draft.tools) < MaxEntries
  /\ draft' = Rendered([draft EXCEPT
                 !.tools = Append(@, SettingsTool("", MaxOrder(@) + 1))])
  /\ lastOp' = "addNewTool"
  /\ UNCHANGED stored
  /\ UNCHANGED <<envVars, sessVars, toolVars, flowVars, regVars, cfgVars, capVars, authVars>>

removeTool ==
  /\ \E i \in DOMAIN draft.tools :
       draft' = Rendered([draft EXCEPT !.tools = reorderTools(RemoveIndex(@, i))])
  /\ lastOp' = "removeTool"
  /\ UNCHANGED stored
  /\ UNCHANGED <<envVars, sessVars, toolVars, flowVars, regVars, cfgVars, capVars, authVars>>

updateTool ==
  /\ \E i \in DOMAIN draft.tools, n \in SettingsToolNames :
       /\ draft.tools[i].tool_name # n
       /\ draft' = Rendered([draft EXCEPT !.tools[i].tool_name = n])
  /\ lastOp' = "updateTool"
  /\ UNCHANGED stored
  /\ UNCHANGED <<envVars, sessVars, toolVars, flowVars, regVars, cfgVars, capVars, authVars>>

addNewParameter ==
  /\ Len(draft.globalParameters) < MaxEntries
  /\ draft' = Rendered([draft EXCEPT
                 !.globalParameters = Append(@, GlobalParameter("", Len(@) + 1))])
  /\ lastOp' = "addNewParameter"
  /\ UNCHANGED stored
  /\ UNCHANGED <<envVars, sessVars, toolVars, flowVars, regVars, cfgVars, capVars, authVars>>

removeParameter ==
  /\ \E i \in DOMAIN draft.globalParameters :
       draft' = Rendered([draft EXCEPT
                  !.globalParameters = reorderGlobalParameters(RemoveIndex(@, i))])
  /\ lastOp' = "removeParameter"
  /\ UNCHANGED stored
  /\ UNCHANGED <<envVars, sessVars, toolVars, flowVars, regVars, cfgVars, capVars, authVars>>

updateParameter ==
  /\ \E i \in DOMAIN draft.globalParameters, k \in ParameterKeys :
       /\ draft.globalParameters[i].key # k
       /\ draft' = Rendered([draft EXCEPT !.globalParameters[i].key = k])
  /\ lastOp' = "updateParameter"
  /\ UNCHANGED stored
  /\ UNCHANGED <<envVars, sessVars, toolVars, flowVars, regVars, cfgVars, capVars, authVars>>

\* An entry is dropped on another one of the same list; the ids of the
\* entries are made of their order.
handleDragEnd ==
  /\ \/ \E a, b \in {draft.tools[i].order : i \in DOMAIN draft.tools} :
          /\ a # b
          /\ draft' = Rendered([draft EXCEPT !.tools =
                         Renumbered(arrayMove(@, FindIndexByOrder(@, a),
                                              FindIndexByOrder(@, b)))])
          /\ lastOp' = "dragTool"
     \/ \E a, b \in {draft.globalParameters[i].order : i \in DOMAIN draft.globalParameters} :
          /\ a # b
          /\ draft' = Rendered([draft EXCEPT !.globalParameters =
                         Renumbered(arrayMove(@, FindIndexByOrder(@, a),
                                              FindIndexByOrder(@, b)))])
          /\ lastOp' = "dragParameter"
  /\ UNCHANGED stored
  /\ UNCHANGED <<envVars, sessVars, toolVars, flowVars, regVars, cfgVars, capVars, authVars>>

\* handleSaveOnly and handleSaveAndExit: nothing is written unless the form
\* validates.
handleSave ==
  /\ IF validateForm(draft)
     THEN stored' = draft /\ lastOp' = "saved"
     ELSE stored' = stored /\ lastOp' = "save rejected"
  /\ UNCHANGED draft
  /\ UNCHANGED <<envVars, sessVars, toolVars, flowVars, regVars, cfgVars, capVars, authVars>>

\* handleImport: importSettings with replaceAll saves the file's settings
\* if validateImportData passes; handleImportSuccess loads them in the form.
handleImport ==
  /\ \E file \in ImportFiles :
       IF validateImportData(file)
       THEN stored' = file /\ draft' = Rendered(file) /\ lastOp' = "imported"
       ELSE stored' = stored /\ draft' = draft /\ lastOp' = "import rejected"
  /\ UNCHANGED <<envVars, sessVars, toolVars, flowVars, regVars, cfgVars, capVars, authVars>>

InitSettings ==
  /\ creds = "none"
  /\ catalog = <<>>
  /\ SessInit
  /\ ToolInit
  /\ FlowInit

NextSettings ==
  \/ addNewTool
  \/ removeTool
  \/ updateTool
  \/ addNewParameter
  \/ removeParameter
  \/ updateParameter
  \/ handleDragEnd
  \/ handleSave
  \/ handleImport

SpecSettings == InitSettings /\ [][NextSettings]_vars

(***************************************************************************)
(* Specification of the registry: app, chat, ui and auth have registered   *)
(* and been rendered; menu, cart and a component outside the expected ones *)
(* register and unregister.                                                *)
(***************************************************************************)
MountedFirst ==
  <<Registration("app", 1), Registration("chat", 1), Registration("ui", 1),
    Registration("auth", 1)>>

InitRegistry ==
  /\ creds = "none"
  /\ catalog = <<>>
  /\ SessInit
  /\ ToolInit
  /\ componentRegistry = MapKeys(MountedFirst)
  /\ isAuthenticatedRef = FALSE
  /\ toolsSkippedDuringConfig = FALSE
  /\ credentialsReady = FALSE
  /\ hasNotifiedAuth = FALSE
  /\ flows = [i \in Slots |-> IdleFlow]
  /\ finished = IdleFlow
  /\ flowsStarted = 0
  /\ registrations = MountedFirst
  /\ updates = <<>>
  /\ applied = <<Updater("register", Registration("auth", 1))>>
  /\ held = SubSeq(MountedFirst, 1, 3)
  /\ processedTools = <<>>
  /\ initTools = <<>>
  /\ CapInit
  /\ SetInit
  /\ AuthInit

NextRegistry ==
  \/ CallRegister
  \/ CallUnregister
  \/ RenderProvider

SpecRegistry == InitRegistry /\ [][NextRegistry]_vars

FairSpecFlows ==
  SpecFlows /\ \A i \in Slots : WF_vars(DelayElapses(i)) /\ WF_vars(PollTick(i))

(***************************************************************************)
(* Properties of the session handshake.                                    *)
(***************************************************************************)
HandshakeSeq ==
  <<"createSession", "sessionCreated", "initiateSession", "sessionInitiated",
    "promptStart", "systemPrompt", "audioStart">>

CallCount(op, tool, sid) ==
  Cardinality({i \in DOMAIN remoteLog : remoteLog[i] = Call(op, tool, sid)})

SeqRange(q) == {q[i] : i \in DOMAIN q}

\* Entry i of remoteLog comes after a call of op on the same session.
PrecededBy(i, op) ==
  \E j \in 1..(i - 1) : remoteLog[j].op = op /\ remoteLog[j].sid = remoteLog[i].sid

HandshakeOfTwoTools ==
  /\ freshStart
  /\ busLog = HandshakeSeq
  /\ SeqRange(lastTools) = {"T1", "T2"}

\* C1: started with no session, the bus event sequence createSession,
\* sessionCreated, initiateSession{tools: T1, T2}, sessionInitiated,
\* promptStart, systemPrompt, audioStart has made each of the three setup
\* calls exactly once on the created session and setTool exactly once for T1
\* and exactly once for T2, and nothing else.
C1_HandshakeRegistersOnce ==
  HandshakeOfTwoTools =>
    \E sid \in 1..MaxStarts :
       /\ \A op \in SetupOps : CallCount(op, "-", sid) = 1
       /\ CallCount("setTool", "T1", sid) = 1
       /\ CallCount("setTool", "T2", sid) = 1
       /\ CallCount("initiateSession", "-", sid) = 1
       /\ Len(remoteLog) = 6

C1_Witness == HandshakeOfTwoTools /\ session # 0

\* C2: every remote initiateSession call comes after a setTool call for each
\* tool of the initiateSession event on that session; every setupSystemPrompt
\* call comes after the initiateSession call, and every setupStartAudio call
\* comes after a setupSystemPrompt call.
C2_ToolsBeforeInitiatePromptBeforeAudio ==
  \A i \in DOMAIN remoteLog :
     /\ remoteLog[i].op = "initiateSession" =>
          \A t \in SeqRange(lastTools) :
             \E j \in 1..(i - 1) : remoteLog[j] = Call("setTool", t, remoteLog[i].sid)
     /\ remoteLog[i].op = "setupSystemPrompt" => PrecededBy(i, "initiateSession")
     /\ remoteLog[i].op = "setupStartAudio" => PrecededBy(i, "setupSystemPrompt")

C2_Witness ==
  /\ Len(lastTools) = 2
  /\ \E i \in DOMAIN remoteLog : remoteLog[i].op = "setupStartAudio"

InFlight(op, sid) == sid \in SeqRange(inflight[op])

Called(op, sid) == \E i \in DOMAIN remoteLog : remoteLog[i] = Call(op, "-", sid)

\* C3 as claimed: a setup step's remote call is never started while the call
\* of the preceding step is still awaited.
C3_StepsChainedOnCompletion ==
  \A sid \in 1..MaxStarts :
     /\ ~(Called("setupSystemPrompt", sid) /\ InFlight("setupPromptStart", sid))
     /\ ~(Called("setupStartAudio", sid) /\ InFlight("setupSystemPrompt", sid))

\* C3 as amended: the setup calls of a session are started in the order in
\* which handleSessionInitiated dispatches their events: initiateSession
\* before setupPromptStart before setupSystemPrompt before setupStartAudio.
C3_StepsStartInDispatchOrder ==
  \A i \in DOMAIN remoteLog :
     /\ remoteLog[i].op = "setupPromptStart" => PrecededBy(i, "initiateSession")
     /\ remoteLog[i].op = "setupSystemPrompt" => PrecededBy(i, "setupPromptStart")
     /\ remoteLog[i].op = "setupStartAudio" => PrecededBy(i, "setupSystemPrompt")

\* All three setup calls of one session awaited at once.
C3_Witness ==
  \E sid \in 1..MaxStarts :
     /\ Called("setupStartAudio", sid)
     /\ \A op \in SetupOps : InFlight(op, sid)

(***************************************************************************)
(* Properties of the tool actions.                                         *)
(***************************************************************************)
Failed(call) == call.error # NoError

\* C4 as claimed: no invocation of a tool action rejects, and every failed
\* invocation, an invocation with no execution context set included, has
\* resolved to the JSON text of {error: true, message, toolName, sessionId}.
C4_ActionNeverRejects ==
  \A i \in DOMAIN toolCalls :
     /\ toolCalls[i].pc # "rejected"
     /\ (toolCalls[i].pc = "resolved" /\ Failed(toolCalls[i])) =>
          toolCalls[i].result =
            ErrorResult(toolCalls[i].error, toolCalls[i].toolName, toolCalls[i].sessionId)

\* C5: an invocation whose script failed to compile, defined no execute,
\* threw or rejected is never rejected, and once settled its result is
\* parseable JSON with error = true and a non-empty message.
C5_ScriptFailureYieldsErrorJson ==
  \A i \in DOMAIN toolCalls :
     toolCalls[i].script \in ScriptFailures =>
       /\ toolCalls[i].pc # "rejected"
       /\ toolCalls[i].pc = "resolved" =>
            /\ Parseable(toolCalls[i].result)
            /\ toolCalls[i].result.payload.error
            /\ NonEmpty(toolCalls[i].result.payload.message)

\* A script that rejected with an Error of empty message, and one that
\* defined no execute, both settled.
C5_Witness ==
  /\ \E i \in DOMAIN toolCalls :
        /\ toolCalls[i].pc = "resolved"
        /\ toolCalls[i].script = "rejects"
        /\ toolCalls[i].result.payload.message = <<"Script execution failed: ", "">>
  /\ \E i \in DOMAIN toolCalls :
        toolCalls[i].pc = "resolved" /\ toolCalls[i].script = "noExecute"

(***************************************************************************)
(* Properties of the initialization flow.                                  *)
(***************************************************************************)
\* The handler runs in progress and the one that finished last.
AllFlows == {flows[i] : i \in Slots} \cup {finished}

\* The credential gate as the run found it: stored credentials present and
\* unexpired, and an identity session with credentials and an ID token.
GateHeld(f) == f.credsSeen \in {"valid", "noexp"} /\ f.authSession = "ok"

\* C6: a run has invoked a tool action only if the credential gate held,
\* and a run whose gate did not hold has returned {executed: false, reason}
\* with a reason and has invoked no tool action.
C6_NoToolUnlessGateHolds ==
  \A f \in AllFlows :
     /\ f.invoked # <<>> => GateHeld(f)
     /\ (f.pc = "done" /\ ~GateHeld(f)) =>
          ~f.executed /\ f.reason # "" /\ f.invoked = <<>>

\* Initialization tools are configured and the run was skipped because the
\* identity session had no ID token.
C6_Witness ==
  /\ catalog # <<>>
  /\ finished.pc = "done"
  /\ finished.reason = "No valid ID token available"
  /\ ~finished.executed

\* C7 as claimed: executeInitializationTools called while the stored
\* credentials carry an expiration that has passed returns the reason
\* "Stored credentials have expired" and runs no tool.
C7_ExpiredCredentialsReason ==
  \A f \in AllFlows :
     (f.attempted /\ f.credsSeen = "expired") =>
        /\ f.pc = "done" /\ ~f.executed /\ f.invoked = <<>>
        /\ f.reason = "Stored credentials have expired"

\* An authentication has completed while a skip was recorded.
RetryPending(n) ==
  \E i \in Slots : flows[i].id = n /\ flows[i].kind = "auth" /\ flows[i].retry

C9_TimeoutThenToolsAttempted ==
  \A n \in 1..MaxFlows :
     (\E i \in Slots : /\ flows[i].id = n
                       /\ flows[i].pc = "polling"
                       /\ flows[i].snapshot = {"app", "chat", "ui", "auth"})
     ~> (\E f \in AllFlows : /\ f.id = n
                             /\ f.timedOut
                             /\ f.attempts = maxAttempts
                             /\ f.missing = {"menu", "cart"}
                             /\ f.attempted)

\* After a wait that timed out on menu and cart, an initialization tool
\* has been invoked.
C9_Witness ==
  \E f \in AllFlows :
     /\ f.timedOut
     /\ f.missing = {"menu", "cart"}
     /\ f.invoked # <<>>

\* C10: a wait never takes more than maxAttempts ticks, its interval is set
\* exactly while it is pending, and every pending wait eventually resolves.
C10_WaitAlwaysResolves ==
  /\ [](\A f \in AllFlows : /\ f.attempts <= maxAttempts
                            /\ f.interval = (f.pc = "polling"))
  /\ \A i \in Slots : (flows[i].pc = "polling") ~> (flows[i].pc # "polling")

\* A wait resolved by its last tick although every expected component had
\* registered meanwhile.
C10_Witness ==
  \E i \in Slots :
     /\ flows[i].pc = "validating"
     /\ flows[i].attempts = maxAttempts
     /\ ~flows[i].interval
     /\ componentRegistry = expectedComponents

\* C11 as claimed: a tick of a pending wait that finds every expected
\* component registered resolves the wait.
C11_ResolvesAtNextPollOnceReady ==
  [][\A i \in Slots :
       (/\ flows[i].pc = "polling"
        /\ areComponentsReady(componentRegistry)
        /\ flows'[i].attempts = flows[i].attempts + 1)
       => flows'[i].pc # "polling"]_vars

(***************************************************************************)
(* Disconnect cleanup.                                                     *)
(***************************************************************************)
\* C12 as claimed: once the disconnect handler has returned for a session,
\* the remote client no longer holds that session as active.
C12_DisconnectLeavesNoActiveSession ==
  \A i \in DOMAIN disconnected : ~isSessionActive(Cur, disconnected[i])

\* C13 as claimed: createSession is handled only when the session variables
\* are clear and no closing sequence of a stopped stream is in progress.
C13_CreateOnlyAfterCleared ==
  [][(starts' = starts + 1 /\ ~sessionInitializedRef)
       => (session = 0 /\ sessionId = 0 /\ teardowns = <<>>)]_vars

(***************************************************************************)
(* Capability registry and the published execution context.                *)
(***************************************************************************)
\* C14 as claimed: the components of the context a tool action reads at its
\* next invocation are the registered components.
C14_ContextFollowsRegistry == executionContext.components = componentRegistry

\* C15 as claimed: when a suspended script resumes, the components it was
\* handed are those of the executor's context at that moment.
C15_ContextNotCachedAcrossSuspension ==
  [][\A i \in DOMAIN toolCalls :
       (/\ toolCalls[i].script = "pending"
        /\ toolCalls[i].pc = "awaitScript"
        /\ toolCalls'[i].pc # "awaitScript")
       => toolCalls[i].components = executionContext.components]_vars

\* Every name a component registers under.
AllNames == expectedComponents \cup RegistryNames

\* The positions of the updaters for name n that the last render applied.
AppliedTo(n) == {i \in DOMAIN applied : applied[i].reg.name = n}

LastApplied(n) == applied[CHOOSE i \in AppliedTo(n) : \A j \in AppliedTo(n) : j <= i]

\* C16: list() holds at most one registration per name; the registration of
\* a name is the one of the last register call for it, and a name with no
\* call keeps the registration it had.
C16_LastWriterWins ==
  /\ \A i, j \in DOMAIN getComponentRegistry(registrations) :
        getComponentRegistry(registrations)[i].name =
          getComponentRegistry(registrations)[j].name => i = j
  /\ \A n \in AllNames :
        IF AppliedTo(n) = {}
        THEN MapGet(registrations, n) = MapGet(held, n)
        ELSE LastApplied(n).op = "register" =>
               /\ \E i \in DOMAIN getComponentRegistry(registrations) :
                     getComponentRegistry(registrations)[i] = LastApplied(n).reg
               /\ MapGet(registrations, n) = LastApplied(n).reg

\* r1 then r2 were registered under one name that already had a registration.
C16_Witness ==
  \E n \in RegistryNames :
     /\ applied = <<Updater("register", Registration(n, 1)),
                    Updater("register", Registration(n, 2))>>
     /\ MapHas(held, n)
     /\ MapGet(registrations, n) = Registration(n, 2)
     /\ Len(registrations) = 6

\* C17: after unregister(n), once or twice, n is absent, every other name
\* keeps its registration, a further unregister(n) changes nothing, and if n
\* was absent the registry is the one before.
C17_UnregisterIdempotent ==
  \A n \in AllNames :
     (/\ applied # <<>>
      /\ \A i \in DOMAIN applied : applied[i] = Updater("unregister", Registration(n, 0)))
     => /\ ~MapHas(registrations, n)
        /\ \A k \in AllNames \ {n} : MapGet(registrations, k) = MapGet(held, k)
        /\ Len(registrations) = Len(held) - (IF MapHas(held, n) THEN 1 ELSE 0)
        /\ unregisterComponent(registrations, n) = registrations
        /\ ~MapHas(held, n) => registrations = held

\* unregister(n) was called twice for a registered n, other components
\* being registered.
C17_Witness ==
  \E n \in RegistryNames :
     /\ applied = <<Updater("unregister", Registration(n, 0)),
                    Updater("unregister", Registration(n, 0))>>
     /\ MapHas(held, n)
     /\ Len(registrations) = 5

\* C19: areComponentsReady holds exactly when app, chat, ui, auth, menu and
\* cart are registered, whatever else is.
C19_ReadyIffAllExpected ==
  /\ areComponentsReady(MapKeys(registrations)) <=>
       (/\ MapHas(registrations, "app") /\ MapHas(registrations, "chat")
        /\ MapHas(registrations, "ui") /\ MapHas(registrations, "auth")
        /\ MapHas(registrations, "menu") /\ MapHas(registrations, "cart"))
  /\ areComponentsReady(MapKeys(registrations)) =
       areComponentsReady(MapKeys(registrations) \ {"extra"})

\* Ready with a seventh component registered.
C19_Witness ==
  /\ areComponentsReady(MapKeys(registrations))
  /\ MapHas(registrations, "extra")

\* The registrations list() returns when it reads the Map m.
Listed(m) == {getComponentRegistry(m)[i] : i \in DOMAIN getComponentRegistry(m)}

\* C18 as claimed: once register(r) has returned and no later call names
\* the same component, list() returns r and getExecutionContext has the
\* component, both through the current callbacks and through the callbacks
\* obtained in an earlier render.
C18_RegisterVisibleImmediately ==
  \A i \in DOMAIN updates :
     (/\ updates[i].op = "register"
      /\ \A j \in DOMAIN updates : j > i => updates[j].reg.name # updates[i].reg.name)
     => /\ updates[i].reg \in Listed(registrations)
        /\ updates[i].reg.name \in Context(MapKeys(registrations)).components
        /\ updates[i].reg \in Listed(held)

(***************************************************************************)
(* The result of a tool action.                                            *)
(***************************************************************************)
\* C20: an invocation whose script returned a JSON text resolves to that
\* text itself, which parses as JSON and is not an error object.
C20_JsonTextReturnedVerbatim ==
  \A i \in DOMAIN toolCalls :
     (toolCalls[i].pc = "resolved" /\ toolCalls[i].returned = "jsonText")
     => /\ toolCalls[i].result.text = ReturnedString("jsonText")
        /\ Parseable(toolCalls[i].result)
        /\ ~toolCalls[i].result.payload.error

\* A script that awaited and then returned a JSON text has resolved.
C20_Witness ==
  \E i \in DOMAIN toolCalls :
     /\ toolCalls[i].pc = "resolved"
     /\ toolCalls[i].returned = "jsonText"
     /\ toolCalls[i].result.text = JsonText

(***************************************************************************)
(* Loading of the catalog.                                                 *)
(***************************************************************************)
\* The position of tool i in the catalog sorted stably by the tools' own
\* order.
RankByOrder(cat, i) ==
  1 + Cardinality({j \in DOMAIN cat :
                     \/ cat[j].order < cat[i].order
                     \/ cat[j].order = cat[i].order /\ j < i})

\* C21: every tool of the loaded catalog has its processed tool, one for
\* one, and a tool whose schema does not parse has the default schema.
C21_BadSchemaStillLoads ==
  (processedTools # <<>> \/ initTools # <<>>) =>
    /\ Len(processedTools) = Len(catalog)
    /\ \E f \in [DOMAIN catalog -> DOMAIN processedTools] :
         /\ \A i, j \in DOMAIN catalog : f[i] = f[j] => i = j
         /\ \A i \in DOMAIN catalog :
              /\ processedTools[f[i]].toolname = catalog[i].tool_name
              /\ processedTools[f[i]].schema =
                   (IF catalog[i].inputSchema = "valid" THEN "parsed" ELSE "default")

\* A loaded catalog with a malformed schema before and after a good one.
C21_Witness ==
  /\ Len(processedTools) = 2
  /\ catalog[1].inputSchema = "malformed"
  /\ catalog[2].inputSchema = "valid"
  /\ \E i, j \in DOMAIN processedTools :
       processedTools[i].schema = "default" /\ processedTools[j].schema = "parsed"

\* C28 as claimed: the processed tools are the tools of the catalog sorted
\* stably by their order, and the initialization tools are those of them
\* whose own flag is set, in that order.
C28_SortedStablyInitSubset ==
  processedTools # <<>> =>
    /\ Len(processedTools) = Len(catalog)
    /\ \A i \in DOMAIN catalog :
         processedTools[RankByOrder(catalog, i)].toolname = catalog[i].tool_name
    /\ LET flagged == SelectSeq(catalog, LAMBDA c : c.run_after_app_init)
       IN /\ Len(initTools) = Len(flagged)
          /\ \A i \in DOMAIN flagged :
               initTools[RankByOrder(flagged, i)].toolname = flagged[i].tool_name

\* The names of the initialization tools of the catalog in ascending order
\* of their own `order`.
AscendingInitTools(cat) ==
  LET flagged == SelectSeq(cat, LAMBDA c : c.run_after_app_init)
  IN [k \in DOMAIN flagged |->
        flagged[CHOOSE i \in DOMAIN flagged : RankByOrder(flagged, i) = k].tool_name]

IsPrefix(s, t) == Len(s) <= Len(t) /\ s = SubSeq(t, 1, Len(s))

\* C22 as claimed: the tool actions a handler run has invoked so far are
\* the first initialization tools in ascending order of `order`, one at a
\* time: a tool is invoked only when every tool of a lower order has been.
C22_InitToolsInAscendingOrder ==
  \A f \in AllFlows : IsPrefix(f.invoked, AscendingInitTools(catalog))

(***************************************************************************)
(* Failures of the handshake and of the closing sequence.                  *)
(***************************************************************************)
\* The message of the error event of a step.
ErrorOf(step) ==
  IF step = "createSession" THEN "Error creating session"
  ELSE IF step \in {"initiateSession", "setTool"} THEN "Error initiating session"
  ELSE IF step = "stopAudio" THEN "Error processing streaming end events"
  ELSE SetupError(step)

\* What the steps completed before have set is still there.
NotUndone ==
  /\ bedrockClient => bedrockClient'
  /\ session # 0 => session' = session /\ sessionId' = sessionId
  /\ active \subseteq active'
  /\ starts' = starts =>
       /\ IsPrefix(remoteLog, remoteLog')
       /\ IsPrefix(busLog, busLog')
       /\ sessionInitializedRef => sessionInitializedRef'

\* C23 as claimed: whichever step fails, tool registration included, the
\* error event of the step is dispatched and nothing is undone.
C23_EveryFailureSurfaced ==
  [][\A step \in failed' : lastError' = ErrorOf(step) /\ NotUndone]_vars

\* C23, amended: a failing session creation, session initiation, prompt
\* start, system prompt, audio start or stopAudio closing sequence
\* dispatches its error event and undoes nothing; a setTool that throws is
\* skipped with no error event, every tool is still offered to setTool and
\* the session is initiated.
C23_FailureSurfacedButSetTool ==
  [][/\ \A step \in failed' \ {"setTool"} :
          lastError' = ErrorOf(step) /\ NotUndone
     /\ "setTool" \in failed' =>
          /\ NotUndone
          /\ "initiateSession" \notin failed' => lastError' = lastError
          /\ \E k \in DOMAIN remoteLog' :
               /\ remoteLog'[k].op = "initiateSession"
               /\ \A i \in DOMAIN lastTools' :
                    \E j \in 1..(k - 1) :
                      remoteLog'[j].op = "setTool" /\ remoteLog'[j].tool = lastTools'[i]
    ]_vars

\* The system prompt failed after the session was created and initiated.
C23_Witness ==
  /\ failed = {"setupSystemPrompt"}
  /\ lastError = "Error processing system prompt"
  /\ bedrockClient
  /\ session # 0
  /\ \E k \in DOMAIN remoteLog : remoteLog[k].op = "initiateSession"

(***************************************************************************)
(* The capabilities seen through the execution context.                    *)
(***************************************************************************)
\* C24 as claimed: a reading method called through the context returns
\* what the state of the registering component is when it is called.
C24_MethodsObserveCurrentState ==
  observed.method \in AppReads => observed.result = observed.now

\* C25: an accessor of context.auth never throws; with no auth capability
\* in the components of the context getCredentials, getJWT and getUserInfo
\* give null and getTokens the three null tokens, and with one the result
\* is what the method of the capability returns at the call.
C25_AuthAccessorsNeverThrow ==
  observed.method \in AuthAccessors =>
    /\ observed.result # "throws"
    /\ ~observed.had => observed.result = NullOf(observed.method)
    /\ observed.had => observed.result = observed.now

\* getTokens was called through a context with no auth capability while
\* credentials are stored.
C25_Witness ==
  /\ observed = Observed("getTokens", FALSE, "nulls", "nulls")
  /\ ~toolComponents.present
  /\ creds = "valid"

(***************************************************************************)
(* The settings page and the store.                                        *)
(***************************************************************************)
\* The order values of the N entries are exactly 1..N.
Dense(s) ==
  /\ {s[i].order : i \in DOMAIN s} = 1..Len(s)
  /\ \A i, j \in DOMAIN s : s[i].order = s[j].order => i = j

\* C26 as claimed: after a tool is added, removed or dragged the orders of
\* the tools are exactly 1..N, and the same for the global parameters.
C26_OrdersDenseAfterMutation ==
  /\ lastOp \in {"addNewTool", "removeTool", "dragTool"} => Dense(draft.tools)
  /\ lastOp \in {"addNewParameter", "removeParameter", "dragParameter"} =>
       Dense(draft.globalParameters)

\* C27 as claimed: the stored configuration never holds a tool name twice
\* nor a parameter key twice whatever the case, and a write that is
\* refused leaves the store as it was.
C27_StoredNamesUnique ==
  /\ \A i, j \in DOMAIN stored.tools :
       stored.tools[i].tool_name = stored.tools[j].tool_name => i = j
  /\ \A i, j \in DOMAIN stored.globalParameters :
       ToLowerCase(stored.globalParameters[i].key) =
         ToLowerCase(stored.globalParameters[j].key) => i = j

(***************************************************************************)
(* The session handle.                                                     *)
(***************************************************************************)
\* C29 as claimed: once the disconnect cleanup of a session has finished,
\* by its closing sequence or by the timeout and the force-close, the
\* handle no longer holds that session.
C29_HandleClearedAfterCleanup ==
  \A i \in DOMAIN disconnected : sessionId # disconnected[i] /\ session # disconnected[i]

\* C30 as claimed: whatever the script returns, no value at all included,
\* the action resolves to a string.
C30_ResultIsAlwaysText ==
  \A i \in DOMAIN toolCalls :
    toolCalls[i].pc = "resolved" => toolCalls[i].result.kind \in {"text", "json"}

(***************************************************************************)
(* The context of an invocation.                                           *)
(***************************************************************************)
\* C31: an invocation runs with the context the executor holds when the
\* action is called: its components are those of that context, and it is
\* refused only if no context is set then.
C31_ContextReadAtCallTime ==
  [][Len(toolCalls') > Len(toolCalls) =>
       LET call == toolCalls'[Len(toolCalls')] IN
         /\ executionContext.isSet =>
              call.pc # "rejected" /\ call.components = executionContext.components
         /\ ~executionContext.isSet => call.pc = "rejected"]_vars

\* Two invocations separated by a setExecutionContext ran with the two
\* contexts.
C31_Witness ==
  /\ Len(toolCalls) = 2
  /\ toolCalls[1].pc # "rejected"
  /\ toolCalls[2].pc # "rejected"
  /\ toolCalls[1].components = {}
  /\ toolCalls[2].components = expectedComponents
  /\ executionContext = Context(expectedComponents)

(***************************************************************************)
(* The loop of executeInitializationTools.                                 *)
(***************************************************************************)
\* C32: a run whose credential gate held has, when it returns, invoked
\* each tool getInitializationTools gave exactly once, whether or not one
\* of them failed, and returned executed = true.
C32_EveryInitToolInvokedOnce ==
  \A f \in AllFlows :
    (f.pc = "done" /\ GateHeld(f)) =>
      /\ f.executed
      /\ f.invoked = ToolNamesOf(SortByOrder(catalog, getInitializationTools(catalog)))

\* A run returned executed = true after three tools, one of which failed.
C32_Witness ==
  /\ finished.pc = "done"
  /\ finished.executed
  /\ finished.toolFailed
  /\ Len(finished.invoked) = 3

(***************************************************************************)
(* The closing sequence of stopAudio and a later session.                  *)
(***************************************************************************)
\* C33 as claimed: the session handle is cleared by the end of a closing
\* sequence only when that sequence was started for the session the handle
\* holds.
C33_TeardownClearsOwnSessionOnly ==
  [][(session # 0 /\ session' = 0) =>
       \E i \in DOMAIN teardowns :
         /\ teardowns[i].phase = "close"
         /\ teardowns' = RemoveAt(teardowns, i)
         /\ teardowns[i].owner = session]_vars

(***************************************************************************)
(* The promise of initializeSession.  Its only resolve and reject are in   *)
(* handleSessionInitiated, so it is pending exactly as long as its pair of *)
(* listeners is registered.  Every awaited call settles in the end; when   *)
(* the user starts or stops streaming is up to the user.                   *)
(***************************************************************************)
FairSpec ==
  /\ Spec
  /\ WF_vars(LoadedTools)
  /\ WF_vars(SetupSettles)
  /\ WF_vars(StreamingStarted)
  /\ WF_vars(TeardownSettles)

\* C34 as claimed: a pending promise of initializeSession settles in the end.
C34_InitializeSessionSettles == (listeners > 0) ~> (listeners = 0)

(***************************************************************************)
(* Listeners of earlier attempts of initializeSession.                     *)
(***************************************************************************)
Dispatched(ev) == Cardinality({i \in DOMAIN busLog : busLog[i] = ev})

\* C35 as claimed: in every attempt that reached sessionInitiated, whatever
\* attempts went before it, initiateSession, promptStart, systemPrompt and
\* audioStart have each been dispatched at most once since the attempt's
\* createSession, and exactly once when the dispatches of the attempt are
\* over.
C35_HandshakeEventsDispatchedOnce ==
  Dispatched("sessionInitiated") > 0 =>
    /\ \A ev \in {"initiateSession", "promptStart", "systemPrompt", "audioStart"} :
         Dispatched(ev) <= 1
    /\ pendingLoads = <<>> => Dispatched("audioStart") = 1

(***************************************************************************)
(* Specification of the session in which startStreaming may also be called *)
(* during a handshake.  The settling of the setup calls and of the closing *)
(* sequences is left out: startStreaming reads none of their variables.    *)
(***************************************************************************)
NextHandshake ==
  \/ StartStreaming
  \/ StartDuringHandshake
  \/ LoadedTools
  \/ StreamingStarted
  \/ StopStreaming

SpecHandshake == Init /\ [][NextHandshake]_vars

InitInitRuns ==
  /\ creds = "none"
  /\ catalog = <<Tool("T2", 2, TRUE), Tool("T1", 1, TRUE)>>
  /\ SessInit
  /\ ToolInit
  /\ FlowInit

NextReauth == NextFlows \/ WrapperRemounts

SpecReauth == InitInitRuns /\ [][NextReauth]_vars

NextInitRuns ==
  \/ RegisterComponent
  \/ FetchCredentials
  \/ ConfigSetAnytime
  \/ AuthSuccessAnytime
  \/ \E i \in Slots : DelayElapses(i)
  \/ \E i \in Slots : PollTick(i)
  \/ \E i \in Slots : AuthSessionSettles(i)
  \/ \E i \in Slots : InitToolSettles(i)

SpecInitRuns == InitInitRuns /\ [][NextInitRuns]_vars

\* C37: between two sign-outs, at most one call of the authentication
\* callback goes on to the readiness wait and the initialization tools,
\* however many times the callback is called.
C37_InitializationOncePerAuthentication == authRuns <= 1

\* The callback was called twice and the second call was ignored.
C37_Witness == deliveries = 2 /\ authRuns = 1

InsideExecuteInitializationTools(f) == f.pc \in {"validating", "tool"}

\* C38 as claimed: no two handler runs are inside executeInitializationTools
\* at the same time.
C38_InitRunsNeverOverlap ==
  \A i, j \in Slots :
    (InsideExecuteInitializationTools(flows[i]) /\ InsideExecuteInitializationTools(flows[j]))
      => i = j

(***************************************************************************)
(* Specification of the session with events dispatched at any time.        *)
(***************************************************************************)
NextBus ==
  \/ StartStreaming
  \/ LoadedTools
  \/ SetupSettles
  \/ TeardownSettles
  \/ DispatchSessionEvent

SpecBus == Init /\ [][NextBus]_vars

\* C39: a step that dispatches audioInput, promptStart, systemPrompt,
\* audioStart or stopAudio while there is no session makes no remote call,
\* emits no error event and leaves the session variables as they were.
C39_NoSessionNoEffect ==
  [][(session = 0 /\ \E ev \in SessionEvents : busLog' = Append(busLog, ev))
       => /\ failed' = {}
          /\ UNCHANGED <<remoteLog, lastError, session, sessionId, bedrockClient,
                         active, inflight, teardowns>>]_vars

\* The five events were dispatched with no session and nothing was called.
C39_Witness ==
  /\ session = 0
  /\ busLog = <<"audioInput", "systemPrompt", "stopAudio">>
  /\ remoteLog = <<>>
  /\ lastError = ""

(***************************************************************************)
(* createSession without valid credentials.                                *)
(***************************************************************************)
\* C40: a createSession handled when the store holds no credentials or
\* expired ones (the store is empty after it) dispatches an error event and
\* no sessionCreated, registers no session with the client and leaves
\* session, sessionId and the client as they were.
C40_NoCredentialsNoSession ==
  [][(starts' = starts + 1 /\ ~sessionInitializedRef /\ creds' = "none")
       => /\ busLog' = <<"createSession">>
          /\ lastError' = "Error creating session"
          /\ "createSession" \in failed'
          /\ pendingLoads' = pendingLoads
          /\ UNCHANGED <<session, sessionId, bedrockClient, active>>]_vars

\* A createSession failed for want of credentials while an earlier session
\* was still set.
C40_Witness ==
  /\ busLog = <<"createSession">>
  /\ lastError = "Error creating session"
  /\ creds = "none"
  /\ starts = 2
  /\ session = 1
====
